---- MODULE Spec2Model ----
(***************************************************************************)
(* Model of the napi function-binding code generator                       *)
(* (crates/backend/src/codegen/fn.rs) and of the entry points it emits.    *)
(*                                                                         *)
(* Three state machines share the variables:                               *)
(*   ArgsSpec  NapiFn::gen_arg_conversions walking a parameter list;       *)
(*   GenSpec   NapiFn::try_to_tokens assembling return, call and dispatch; *)
(*   Spec      the emitted entry point executing on the runtime thread,    *)
(*             with the task executor for asynchronous functions           *)
(*             (FairSpec adds the scheduling fairness).                    *)
(***************************************************************************)
EXTENDS Integers, Sequences, FiniteSets, TLC

\* ------------------------------------------------------------------ bounds
\* longest parameter list the planner walks (ArgsSpec)
MaxArgs == 3
\* longest parameter list of an executed entry point (Spec)
MaxExecArgs == 2
\* asynchronous tasks dispatched in one behaviour
MaxTasks == 1

SeqsUpTo(S, n) == UNION {[1..m -> S] : m \in 0..n}

\* ------------------------------------------------------- descriptor model
\* FnKind: the two kinds fn.rs tests for, and every other kind
FnKinds == {"Plain", "Constructor", "Factory"}

\* FnSelf (None = no receiver); Value is matched by gen_fn_receiver alone
FnSelfs == {"None", "Value", "Ref", "MutRef"}

\* the owning type of a method, constructor or factory
Parents == {"None", "C"}

\* a parameter type, by its token string
PatTypes == {"Env", "T", "& T", "& mut T", "Reference<C>", "Reference<D>"}

\* the return type, by its token string (None = no return type)
RetTypes == {"None", "T", "& Self", "&mut Self"}

\* NapiFnArgKind::PatType
PatTypeArg(ty) == [kind |-> "PatType", ty |-> ty, pure_fn |-> FALSE]

\* NapiFnArgKind::Callback
CallbackArg(pure) == [kind |-> "Callback", ty |-> "Fn", pure_fn |-> pure]

\* NapiFnArgKind
ArgKinds == {PatTypeArg(ty) : ty \in PatTypes} \cup {CallbackArg(p) : p \in BOOLEAN}

\* NapiFn, the fields fn.rs reads
NapiFn(kind, fn_self, parent, args, ret, is_ret_result, is_async, strict) ==
  [kind |-> kind, fn_self |-> fn_self, parent |-> parent, args |-> args,
   ret |-> ret, is_ret_result |-> is_ret_result, is_async |-> is_async,
   strict |-> strict]

\* descriptors the parser hands over: a receiver needs an owner, constructors
\* and factories are owner-namespaced and take no receiver, and only a
\* present return type can be a Result
ValidDescriptor(d) ==
  /\ d.fn_self # "None" => d.parent # "None"
  /\ d.kind \in {"Constructor", "Factory"} => d.parent # "None" /\ d.fn_self = "None"
  /\ d.is_ret_result => d.ret # "None"

\* (kind, fn_self, parent) and (ret, is_ret_result) as the parser pairs them
Receivers ==
  {h \in FnKinds \X FnSelfs \X Parents :
     ValidDescriptor(NapiFn(h[1], h[2], h[3], <<>>, "None", FALSE, FALSE, FALSE))}

Returns ==
  {r \in RetTypes \X BOOLEAN :
     ValidDescriptor(NapiFn("Plain", "None", "None", <<>>, r[1], r[2], FALSE, FALSE))}

\* every descriptor over the given parameter lists
DescriptorsOver(argLists) ==
  {NapiFn(h[1], h[2], h[3], a, r[1], r[2], y, t) :
     h \in Receivers, a \in argLists, r \in Returns, y \in BOOLEAN, t \in BOOLEAN}

\* ----------------------------------------------------- gen_arg_conversions
\* `let this_ptr = cb.unwrap_raw()?; let this: &(mut) parent = Box::leak(..)`
ThisStmt(conv) ==
  [op |-> "this", conv |-> conv, validate |-> FALSE, index |-> 0, ident |-> <<"this", 0>>]

\* the statement gen_ty_arg_conversion quotes for `let arg{i} = ...`
TyStmt(conv, validate, index) ==
  [op |-> "ty", conv |-> conv, validate |-> validate, index |-> index,
   ident |-> <<"arg", index>>]

\* the statement gen_cb_arg_conversion quotes for `let arg{i} = lambda`
CbStmt(conv, index) ==
  [op |-> "cb", conv |-> conv, validate |-> FALSE, index |-> index,
   ident |-> <<"arg", index>>]

\* call-site argument expressions
EnvExpr == <<"Env::from(env)", 0>>
OwnerRefExpr == <<"Reference::from_value_ptr(this_ptr)", 0>>
IdentExpr(i) == <<"arg", i>>

\* the class a `Reference<X>` path type names, None for every other type
ReferenceTarget(ty) ==
  CASE ty = "Reference<C>" -> "C"
    [] ty = "Reference<D>" -> "D"
    [] OTHER -> "None"

\* the nested `if let` chain: a Reference whose first generic argument is
\* the parent of the function being generated
IsOwnerReference(d, arg) ==
  /\ d.parent # "None"
  /\ ReferenceTarget(arg.ty) # "None"
  /\ ReferenceTarget(arg.ty) = d.parent

\* gen_ty_arg_conversion emitting no validation in strict mode
gen_ty_arg_conversion_unchecked(d, index, ty) ==
  CASE ty = "& mut T" -> TyStmt("from_napi_mut_ref", FALSE, index)
    [] ty = "& T" -> TyStmt("from_napi_ref", FALSE, index)
    [] OTHER -> TyStmt("from_napi_value", FALSE, index)

\* strict validating every value parameter, whatever its reference mode
gen_ty_arg_conversion_validate_all(d, index, ty) ==
  CASE ty = "& mut T" -> TyStmt("from_napi_mut_ref", d.strict, index)
    [] ty = "& T" -> TyStmt("from_napi_ref", d.strict, index)
    [] OTHER -> TyStmt("from_napi_value", d.strict, index)

gen_ty_arg_conversion(d, index, ty) ==
  CASE ty = "& mut T" -> TyStmt("from_napi_mut_ref", FALSE, index)
    [] ty = "& T" -> TyStmt("from_napi_ref", FALSE, index)
    [] OTHER -> TyStmt("from_napi_value", d.strict, index)

gen_cb_arg_conversion(d, index, cb) ==
  IF cb.pure_fn THEN CbStmt("lambda", index) ELSE CbStmt("Function { inner: lambda }", index)

\* the four vectors and two counters of gen_arg_conversions, before `fetch this`
PlannerStart ==
  [arg_conversions |-> <<>>, args |-> <<>>, trait_def |-> <<>>,
   trait_impl_def |-> <<>>, skipped_arg_count |-> 0, trait_name_count |-> 0]

\* fetch this recovering a shared reference whatever the receiver
FetchThis_shared(d, st) ==
  IF d.parent # "None" /\ d.fn_self \in {"Ref", "MutRef"}
    THEN [st EXCEPT !.arg_conversions = Append(@, ThisStmt("& parent"))]
  ELSE st

\* `// fetch this`
FetchThis(d, st) ==
  IF d.parent # "None" /\ d.fn_self = "Ref"
    THEN [st EXCEPT !.arg_conversions = Append(@, ThisStmt("& parent"))]
  ELSE IF d.parent # "None" /\ d.fn_self = "MutRef"
    THEN [st EXCEPT !.arg_conversions = Append(@, ThisStmt("&mut parent"))]
  ELSE st

\* ArgStep reading the slot at the parameter's own position (no `- skipped_arg_count`)
ArgStep_unshifted(d, st, k) ==
  LET arg == d.args[k]
      i == k - 1
  IN IF arg.kind = "PatType"
       THEN IF arg.ty = "Env"
              THEN [st EXCEPT !.args = Append(@, EnvExpr),
                              !.skipped_arg_count = @ + 1]
            ELSE IF IsOwnerReference(d, arg)
              THEN [st EXCEPT !.args = Append(@, OwnerRefExpr),
                              !.skipped_arg_count = @ + 1]
            ELSE [st EXCEPT !.arg_conversions = Append(@, gen_ty_arg_conversion(d, i, arg.ty)),
                            !.args = Append(@, IdentExpr(i))]
     ELSE IF ~arg.pure_fn
       THEN [st EXCEPT !.arg_conversions = Append(@, gen_cb_arg_conversion(d, i, arg)),
                       !.args = Append(@, IdentExpr(i)),
                       !.trait_def = Append(@, <<"trait", <<"FunctionCall", st.trait_name_count>>>>),
                       !.trait_impl_def = Append(@, <<"impl", <<"FunctionCall", st.trait_name_count>>>>),
                       !.trait_name_count = @ + 1]
     ELSE [st EXCEPT !.arg_conversions = Append(@, gen_cb_arg_conversion(d, i, arg)),
                     !.args = Append(@, IdentExpr(i))]

\* one iteration of `self.args.iter().enumerate().for_each`, k = 1..len
ArgStep(d, st, k) ==
  LET arg == d.args[k]
      i == (k - 1) - st.skipped_arg_count
  IN IF arg.kind = "PatType"
       THEN IF arg.ty = "Env"
              THEN [st EXCEPT !.args = Append(@, EnvExpr),
                              !.skipped_arg_count = @ + 1]
            ELSE IF IsOwnerReference(d, arg)
              THEN [st EXCEPT !.args = Append(@, OwnerRefExpr),
                              !.skipped_arg_count = @ + 1]
            ELSE [st EXCEPT !.arg_conversions = Append(@, gen_ty_arg_conversion(d, i, arg.ty)),
                            !.args = Append(@, IdentExpr(i))]
     ELSE IF ~arg.pure_fn
       THEN [st EXCEPT !.arg_conversions = Append(@, gen_cb_arg_conversion(d, i, arg)),
                       !.args = Append(@, IdentExpr(i)),
                       !.trait_def = Append(@, <<"trait", <<"FunctionCall", st.trait_name_count>>>>),
                       !.trait_impl_def = Append(@, <<"impl", <<"FunctionCall", st.trait_name_count>>>>),
                       !.trait_name_count = @ + 1]
     ELSE [st EXCEPT !.arg_conversions = Append(@, gen_cb_arg_conversion(d, i, arg)),
                     !.args = Append(@, IdentExpr(i))]

RECURSIVE PlanUpTo(_, _)
\* the planner's state after the first k parameters
PlanUpTo(d, k) ==
  IF k = 0 THEN FetchThis(d, PlannerStart) ELSE ArgStep(d, PlanUpTo(d, k - 1), k)

gen_arg_conversions(d) == PlanUpTo(d, Len(d.args))

\* ------------------------------------------------------------ gen_fn_return
is_return_self(ty_string) == ty_string = "& Self" \/ ty_string = "&mut Self"

\* gen_fn_return with the return-self test made before the is_async test
gen_fn_return_self_first(d) ==
  IF d.ret # "None"
    THEN IF d.kind = "Constructor"
           THEN IF d.is_ret_result THEN "cb.construct(js_name, _ret?)"
                ELSE "cb.construct(js_name, _ret)"
         ELSE IF d.kind = "Factory"
           THEN IF d.is_ret_result THEN "cb.factory(js_name, _ret?)"
                ELSE "cb.factory(js_name, _ret)"
         ELSE IF d.is_ret_result
           THEN IF is_return_self(d.ret) THEN "_ret.map(|_| cb.this)"
                ELSE IF d.is_async THEN "<ty>::to_napi_value(env, _ret)"
                ELSE "match _ret { Ok(value) => to_napi_value(env, value), Err(err) => { throw_into(env); Ok(null) } }"
         ELSE IF is_return_self(d.ret) THEN "Ok(cb.this)"
         ELSE "<ty>::to_napi_value(env, _ret)"
  ELSE "<()>::to_napi_value(env, ())"

\* the tokens gen_fn_return quotes
gen_fn_return(d) ==
  IF d.ret # "None"
    THEN IF d.kind = "Constructor"
           THEN IF d.is_ret_result THEN "cb.construct(js_name, _ret?)"
                ELSE "cb.construct(js_name, _ret)"
         ELSE IF d.kind = "Factory"
           THEN IF d.is_ret_result THEN "cb.factory(js_name, _ret?)"
                ELSE "cb.factory(js_name, _ret)"
         ELSE IF d.is_ret_result
           THEN IF d.is_async THEN "<ty>::to_napi_value(env, _ret)"
                ELSE IF is_return_self(d.ret) THEN "_ret.map(|_| cb.this)"
                ELSE "match _ret { Ok(value) => to_napi_value(env, value), Err(err) => { throw_into(env); Ok(null) } }"
         ELSE IF is_return_self(d.ret) THEN "Ok(cb.this)"
         ELSE "<ty>::to_napi_value(env, _ret)"
  ELSE "<()>::to_napi_value(env, ())"

\* what each quoted return assembly does with `_ret`:
\*   op       the value handed back on success
\*   unwrap   `_ret?`: a failure in _ret leaves the dispatch as its failure
\*   on_err   what a failure in _ret becomes when it is not unwrapped by `?`
Assembly(tokens) ==
  CASE tokens = "cb.construct(js_name, _ret?)" ->
         [op |-> "construct", unwrap |-> TRUE, on_err |-> "none"]
    [] tokens = "cb.construct(js_name, _ret)" ->
         [op |-> "construct", unwrap |-> FALSE, on_err |-> "none"]
    [] tokens = "cb.factory(js_name, _ret?)" ->
         [op |-> "factory", unwrap |-> TRUE, on_err |-> "none"]
    [] tokens = "cb.factory(js_name, _ret)" ->
         [op |-> "factory", unwrap |-> FALSE, on_err |-> "none"]
    [] tokens = "<ty>::to_napi_value(env, _ret)" ->
         [op |-> "convert", unwrap |-> FALSE, on_err |-> "none"]
    [] tokens = "_ret.map(|_| cb.this)" ->
         [op |-> "this", unwrap |-> FALSE, on_err |-> "propagate"]
    [] tokens = "match _ret { Ok(value) => to_napi_value(env, value), Err(err) => { throw_into(env); Ok(null) } }" ->
         [op |-> "convert", unwrap |-> FALSE, on_err |-> "throw_null"]
    [] tokens = "Ok(cb.this)" ->
         [op |-> "this", unwrap |-> FALSE, on_err |-> "none"]
    [] tokens = "<()>::to_napi_value(env, ())" ->
         [op |-> "unit", unwrap |-> FALSE, on_err |-> "none"]

\* ---------------------------------------------------------- gen_fn_receiver
\* gen_fn_receiver taking a by-value receiver for a borrowed one
gen_fn_receiver_value_as_ref(d) ==
  CASE d.fn_self \in {"Value", "Ref", "MutRef"} -> "this.name"
    [] d.fn_self = "None" /\ d.parent # "None" -> "class::name"
    [] OTHER -> "name"

\* the callable expression; `unimplemented!()` aborts the generation
gen_fn_receiver(d) ==
  CASE d.fn_self = "Value" -> "unimplemented!()"
    [] d.fn_self \in {"Ref", "MutRef"} -> "this.name"
    [] d.fn_self = "None" /\ d.parent # "None" -> "class::name"
    [] OTHER -> "name"

\* ---------------------------------------------------------- gen_fn_register
\* an item of the emitted token stream: what it is, its name, what it calls
Item(item, name, calls) == [item |-> item, name |-> name, calls |-> calls]

\* `unsafe fn #cb_name(env) -> Result<napi_value>`
RegisterThunk ==
  Item("unsafe fn", "cb_name",
       <<<<"napi_create_function", "js_name", "name_len", "intermediate_ident">>,
         <<"register_js_function", "js_name", "cb_name", "intermediate_ident">>>>)

\* `#[ctor] fn #module_register_name()`
ModuleRegister ==
  Item("#[ctor] fn", "module_register_name",
       <<<<"register_module_export", "js_mod", "js_name", "cb_name">>>>)

\* gen_fn_register quoting the registration whatever the parent
gen_fn_register_always(d) == <<RegisterThunk, ModuleRegister>>

\* the items quoted after the entry point: the thunk creating the function
\* value and the load-time initializer filling the export table
gen_fn_register(d) ==
  IF d.parent # "None" THEN <<>> ELSE <<RegisterThunk, ModuleRegister>>

\* ------------------------------------------------------------ try_to_tokens
\* native_call emitting the inline call for asynchronous functions too
native_call_inline(d) ==
  [mode |-> "inline", call |-> "receiver(args)", ret |-> gen_fn_return(d)]

\* `let native_call = if !self.is_async {..} else {..}`: an inline call followed
\* by the return assembly, or the call wrapped as a future handed to
\* execute_tokio_future together with the return assembly as its resolver
native_call(d) ==
  IF ~d.is_async
    THEN [mode |-> "inline", call |-> "receiver(args)", ret |-> gen_fn_return(d)]
  ELSE IF d.is_ret_result
    THEN [mode |-> "execute_tokio_future", call |-> "receiver(args).await",
          ret |-> gen_fn_return(d)]
  ELSE [mode |-> "execute_tokio_future", call |-> "Ok(receiver(args).await)",
        ret |-> gen_fn_return(d)]

\* function_call calling directly whenever no call-frame slot is read
function_call_direct_without_slots(d) ==
  IF /\ gen_arg_conversions(d).arg_conversions = <<>>
     /\ d.fn_self = "None"
     /\ d.kind # "Constructor"
     /\ d.kind # "Factory"
    THEN <<"native_call">>
  ELSE IF d.kind = "Constructor"
    THEN <<"if ___CALL_FROM_FACTORY", "CallbackInfo::new", "arg_conversions", "native_call">>
  ELSE <<"CallbackInfo::new", "arg_conversions", "native_call">>

\* function_call with the direct-call test not excluding constructors
function_call_direct_constructor(d) ==
  IF /\ Len(d.args) = 0
     /\ d.fn_self = "None"
     /\ d.kind # "Factory"
    THEN <<"native_call">>
  ELSE IF d.kind = "Constructor"
    THEN <<"if ___CALL_FROM_FACTORY", "CallbackInfo::new", "arg_conversions", "native_call">>
  ELSE <<"CallbackInfo::new", "arg_conversions", "native_call">>

\* function_call without the constructor's factory guard
function_call_unguarded(d) ==
  IF /\ Len(d.args) = 0
     /\ d.fn_self = "None"
     /\ d.kind # "Constructor"
     /\ d.kind # "Factory"
    THEN <<"native_call">>
  ELSE <<"CallbackInfo::new", "arg_conversions", "native_call">>

\* `let function_call = ..`: the blocks of the emitted dispatch, in order
function_call(d) ==
  IF /\ Len(d.args) = 0
     /\ d.fn_self = "None"
     /\ d.kind # "Constructor"
     /\ d.kind # "Factory"
    THEN <<"native_call">>
  ELSE IF d.kind = "Constructor"
    THEN <<"if ___CALL_FROM_FACTORY", "CallbackInfo::new", "arg_conversions", "native_call">>
  ELSE <<"CallbackInfo::new", "arg_conversions", "native_call">>

\* ------------------------------------------------------------------- state
VARIABLES
  desc,              \* the NapiFn being generated, and whose entry point runs
  gen_pc,            \* where the generator stands
  arg_i,             \* parameters gen_arg_conversions has walked
  planner,           \* gen_arg_conversions' vectors and counters
  unit,              \* what try_to_tokens has assembled so far
  ctor,              \* the constructor of desc's class (factories construct through it)
  flag,              \* ___CALL_FROM_FACTORY
  stack,             \* runtime thread: the running entry point / completion handler frames
  tasks,             \* futures handed to execute_tokio_future
  factory_finished,  \* a factory-driven construction has run to its end
  cb_call,           \* one callback parameter's trampoline and its invocations
  target,            \* the cli's Target::new working on one triple
  reg                \* gen_fn_register working on one exported name

genVars == <<gen_pc, arg_i, planner, unit>>
runVars == <<ctor, flag, stack, tasks, factory_finished>>
vars == <<desc, gen_pc, arg_i, planner, unit, ctor, flag, stack, tasks, factory_finished, cb_call, target, reg>>

\* no callback parameter is being followed
NoCall ==
  [sig |-> [args |-> <<>>, ret |-> "None"],
   lambda |-> [inputs |-> <<>>, arg_conversions |-> <<>>, this |-> "", func |-> 0, ret |-> ""],
   param |-> 0, this |-> "", frame |-> <<>>, calls |-> 0, pc |-> "none", native |-> <<>>,
   args |-> <<>>, ret_ptr |-> 0, result |-> <<"none", "", 0>>, events |-> <<>>,
   called |-> <<"", <<"", 0>>, <<>>>>]

\* Target::new is not running
NoTarget ==
  [triple |-> <<>>, target |-> <<>>, pos |-> 0, cur |-> <<>>, parts |-> <<>>,
   pc |-> "none", cpu |-> <<>>, sys |-> <<>>, abi |-> <<>>,
   platform |-> <<"", <<>>>>, arch |-> <<>>, platform_arch_abi |-> <<>>]

\* gen_fn_register is not running
NoReg ==
  [exported_name |-> <<>>, pc |-> "none", js_name |-> <<>>, name_len |-> 0,
   create_function |-> [utf8name |-> <<>>, length |-> 0],
   export |-> <<>>]

\* the statements of the annotated function's own block
OriginalBodies == {<<>>, <<<<"stmt", <<"original", 0>>>>, <<"stmt", <<"original", 1>>>>>>}

\* nothing assembled yet: `tokens` holds the annotated function alone
UnitOf(body) ==
  [receiver |-> "", ret |-> "", register |-> <<>>, native_call |-> "",
   function_call |-> <<>>, body |-> body, index |-> 0, stream |-> <<>>]

NoUnit == UnitOf(<<>>)

\* the splice loop appending to the block instead of inserting at its head
SpliceOne_append(body, trait_def, trait_impl_def, index) ==
  body \o <<trait_def[index + 1], trait_impl_def[index + 1]>>

\* `for (index, trait_def_item) in trait_def.iter().enumerate()`: each
\* iteration inserts the implementation, then the interface, at position 0
\* the two insertions at the head made in the other order
SpliceOne_impl_first(body, trait_def, trait_impl_def, index) ==
  <<trait_impl_def[index + 1], trait_def[index + 1]>> \o body

SpliceOne(body, trait_def, trait_impl_def, index) ==
  <<trait_def[index + 1], trait_impl_def[index + 1]>> \o body

RECURSIVE SpliceUpTo(_, _, _, _)
SpliceUpTo(body, trait_def, trait_impl_def, n) ==
  IF n = 0 THEN body
  ELSE SpliceOne(SpliceUpTo(body, trait_def, trait_impl_def, n - 1),
                 trait_def, trait_impl_def, n - 1)

\* `(quote! { extern "C" fn .. #register }).to_tokens(&mut new_stream)`
EntryPoint ==
  Item("extern \"C\" fn", "intermediate_ident", <<<<"function_call.unwrap_or_else">>>>)

\* the annotated function, the entry point and the registration
StreamOf(register) == <<Item("fn", "name", <<>>), EntryPoint>> \o register

Stream(d) == StreamOf(gen_fn_register(d))

\* what try_to_tokens leaves in `tokens`
EmittedUnit(d, body) ==
  LET plan == gen_arg_conversions(d)
  IN [receiver |-> gen_fn_receiver(d), ret |-> gen_fn_return(d),
      register |-> gen_fn_register(d), native_call |-> native_call(d).mode,
      function_call |-> function_call(d),
      body |-> SpliceUpTo(body, plan.trait_def, plan.trait_impl_def, Len(plan.trait_def)),
      index |-> Len(plan.trait_def), stream |-> Stream(d)]

\* a class constructor: `fn new(..) -> Self`, fallible or not
CtorDescriptors ==
  {NapiFn("Constructor", "None", "C", <<>>, "T", FALSE, FALSE, FALSE),
   NapiFn("Constructor", "None", "C", <<PatTypeArg("T")>>, "T", TRUE, FALSE, FALSE)}

DefaultCtor == NapiFn("Constructor", "None", "C", <<>>, "T", FALSE, FALSE, FALSE)

\* the runtime before any entry point was invoked
RunIdle ==
  /\ flag = FALSE
  /\ stack = <<>>
  /\ tasks = <<>>
  /\ factory_finished = FALSE

\* ---------------------------------------------------------------- ArgsSpec
\* the fields gen_arg_conversions reads: parent, fn_self, strict and args
PlannerDescriptors ==
  {NapiFn("Plain", h[2], h[3], a, "None", FALSE, FALSE, t) :
     h \in {r \in Receivers : r[1] = "Plain"}, a \in SeqsUpTo(ArgKinds, MaxArgs),
     t \in BOOLEAN}

ArgsInit ==
  /\ desc \in PlannerDescriptors
  /\ gen_pc = "fetch_this"
  /\ arg_i = 0
  /\ planner = PlannerStart
  /\ unit = NoUnit
  /\ ctor = DefaultCtor
  /\ cb_call = NoCall
  /\ target = NoTarget
  /\ reg = NoReg
  /\ RunIdle

PlanFetchThis ==
  /\ gen_pc = "fetch_this"
  /\ planner' = FetchThis(desc, planner)
  /\ gen_pc' = "for_each"
  /\ UNCHANGED <<desc, cb_call, target, reg, arg_i, unit, runVars>>

PlanArg ==
  /\ gen_pc = "for_each"
  /\ arg_i < Len(desc.args)
  /\ planner' = ArgStep(desc, planner, arg_i + 1)
  /\ arg_i' = arg_i + 1
  /\ UNCHANGED <<desc, cb_call, target, reg, gen_pc, unit, runVars>>

PlanDone ==
  /\ gen_pc = "for_each"
  /\ arg_i = Len(desc.args)
  /\ gen_pc' = "planned"
  /\ UNCHANGED <<desc, cb_call, target, reg, arg_i, planner, unit, runVars>>

ArgsNext == PlanFetchThis \/ PlanArg \/ PlanDone

ArgsSpec == ArgsInit /\ [][ArgsNext]_vars

\* ----------------------------------------------------------------- GenSpec
\* parameter kinds that tell `args_len == 0`, slot-free parameters and the
\* two callback kinds from the rest
HeaderArgKinds == {PatTypeArg("Env"), PatTypeArg("T"), CallbackArg(TRUE), CallbackArg(FALSE)}

\* longest parameter list try_to_tokens is run on (GenSpec)
MaxHeaderArgs == 2

HeaderArgLists == SeqsUpTo(HeaderArgKinds, MaxHeaderArgs)

HeaderDescriptors == DescriptorsOver(HeaderArgLists)

GenInit ==
  /\ desc \in HeaderDescriptors
  /\ gen_pc = "gen_fn_receiver"
  /\ arg_i = Len(desc.args)
  /\ planner = gen_arg_conversions(desc)
  /\ unit \in {UnitOf(b) : b \in OriginalBodies}
  /\ ctor = DefaultCtor
  /\ cb_call = NoCall
  /\ target = NoTarget
  /\ reg = NoReg
  /\ RunIdle

\* `let receiver = self.gen_fn_receiver();`
EmitReceiver ==
  /\ gen_pc = "gen_fn_receiver"
  /\ unit' = [unit EXCEPT !.receiver = gen_fn_receiver(desc)]
  /\ gen_pc' = IF gen_fn_receiver(desc) = "unimplemented!()" THEN "panicked"
               ELSE "gen_fn_return"
  /\ UNCHANGED <<desc, cb_call, target, reg, arg_i, planner, runVars>>

EmitReturn ==
  /\ gen_pc = "gen_fn_return"
  /\ unit' = [unit EXCEPT !.ret = gen_fn_return(desc)]
  /\ gen_pc' = "gen_fn_register"
  /\ UNCHANGED <<desc, cb_call, target, reg, arg_i, planner, runVars>>

\* `let register = self.gen_fn_register();`
EmitRegister ==
  /\ gen_pc = "gen_fn_register"
  /\ unit' = [unit EXCEPT !.register = gen_fn_register(desc)]
  /\ gen_pc' = "native_call"
  /\ UNCHANGED <<desc, cb_call, target, reg, arg_i, planner, runVars>>

EmitNativeCall ==
  /\ gen_pc = "native_call"
  /\ unit' = [unit EXCEPT !.native_call = native_call(desc).mode]
  /\ gen_pc' = "function_call"
  /\ UNCHANGED <<desc, cb_call, target, reg, arg_i, planner, runVars>>

EmitFunctionCall ==
  /\ gen_pc = "function_call"
  /\ unit' = [unit EXCEPT !.function_call = function_call(desc)]
  /\ gen_pc' = "splice"
  /\ UNCHANGED <<desc, cb_call, target, reg, arg_i, planner, runVars>>

\* one iteration of the splice loop
SpliceItem ==
  /\ gen_pc = "splice"
  /\ unit.index < Len(planner.trait_def)
  /\ unit' = [unit EXCEPT
       !.body = SpliceOne(@, planner.trait_def, planner.trait_impl_def, unit.index),
       !.index = @ + 1]
  /\ UNCHANGED <<desc, cb_call, target, reg, gen_pc, arg_i, planner, runVars>>

\* the loop is over, or `trait_def.is_empty()` and the item is cloned as it is
SpliceDone ==
  /\ gen_pc = "splice"
  /\ unit.index = Len(planner.trait_def)
  /\ gen_pc' = "quote"
  /\ UNCHANGED <<desc, cb_call, target, reg, arg_i, planner, unit, runVars>>

\* the entry point and `#register` are appended and swapped into `tokens`
EmitEntryPoint ==
  /\ gen_pc = "quote"
  /\ unit' = [unit EXCEPT !.stream = StreamOf(unit.register)]
  /\ gen_pc' = "emitted"
  /\ UNCHANGED <<desc, cb_call, target, reg, arg_i, planner, runVars>>

GenNext ==
  \/ EmitReceiver
  \/ EmitReturn
  \/ EmitRegister
  \/ EmitNativeCall
  \/ EmitFunctionCall
  \/ SpliceItem
  \/ SpliceDone
  \/ EmitEntryPoint

GenSpec == GenInit /\ [][GenNext]_vars

\* --------------------------------------------------- the emitted entry point
\* Events are the operations a frame or a task has attempted, in order:
\* <<operation, call-frame slot or task>>.

\* parameter kinds of the executed entry points
ExecArgKinds ==
  {PatTypeArg("Env"), PatTypeArg("T"), PatTypeArg("& T"), PatTypeArg("Reference<C>"),
   CallbackArg(TRUE)}

\* the emitted unit names only what it binds: `this_ptr` is bound by the
\* receiver recovery alone, and `cb.this` needs the call frame `cb`
Buildable(d) ==
  /\ is_return_self(d.ret) => d.fn_self # "None"
  /\ \A k \in 1..Len(d.args) : IsOwnerReference(d, d.args[k]) => d.fn_self # "None"

\* a generation that aborts emits no entry point; `&mut Self` runs as
\* `& Self` does, and strict changes the emitted code only where an owned
\* value is converted: one of each pair is executed
ExecDescriptors ==
  {d \in DescriptorsOver(SeqsUpTo(ExecArgKinds, MaxExecArgs)) :
     /\ Buildable(d)
     /\ gen_fn_receiver(d) # "unimplemented!()"
     /\ d.ret # "&mut Self"
     /\ d.strict => \E k \in 1..Len(d.args) : d.args[k] = PatTypeArg("T")}

\* the function a frame runs
FnOf(f) == IF f.fn = "ctor" THEN ctor ELSE desc

\* the conversion statements spliced into the dispatch
Stmts(d) == gen_arg_conversions(d).arg_conversions

\* the call-site arguments `#(#arg_names),*`
CallArgs(d) == gen_arg_conversions(d).args

\* the call evaluates `Reference::from_value_ptr(this_ptr, env)?` among its arguments
HasOwnerRefArg(d) == \E k \in 1..Len(CallArgs(d)) : CallArgs(d)[k] = OwnerRefExpr

NewFrame(fn, role, task, guard) ==
  [fn |-> fn, role |-> role, task |-> task, called_from_factory |-> guard,
   pc |-> "block", blk |-> 1, idx |-> 1,
   events |-> <<>>, native |-> "none", out |-> "none", err |-> "none",
   handle |-> "none", thrown |-> <<>>, ctor_body |-> 0]

NewTask ==
  [st |-> "running", res |-> "none", deferred |-> "pending", handler_runs |-> 0,
   value |-> "none", events |-> <<>>, handler_events |-> <<>>, handler_err |-> "none",
   entry_thrown |-> -1, entry_handle |-> "none"]

Top == stack[Len(stack)]
SetTop(f) == [stack EXCEPT ![Len(stack)] = f]
Running == stack # <<>>

RECURSIVE SkipEmpty(_, _)
\* `#(#arg_conversions)*` of no statement is no code at all
SkipEmpty(d, b) ==
  IF b <= Len(function_call(d)) /\ function_call(d)[b] = "arg_conversions" /\ Stmts(d) = <<>>
    THEN SkipEmpty(d, b + 1)
  ELSE b

\* frame f at block b of its dispatch; past the last block the dispatch's
\* value goes to `.unwrap_or_else`
Goto(d, f, b) ==
  LET n == SkipEmpty(d, b)
  IN IF n > Len(function_call(d))
       THEN [f EXCEPT !.pc = "unwrap", !.blk = n]
     ELSE [f EXCEPT !.pc = "block", !.blk = n, !.idx = 1]

\* the frame stands at the named block
AtBlock(name) ==
  /\ Running
  /\ Top.pc = "block"
  /\ Top.blk <= Len(function_call(FnOf(Top)))
  /\ function_call(FnOf(Top))[Top.blk] = name

\* `?` or the closure's tail: a failure leaves the dispatch, a success goes on
Fail(f, err) == [f EXCEPT !.pc = "unwrap", !.out = "Err", !.err = err]
Succeed(f, handle) ==
  IF f.role = "handler"
    THEN [f EXCEPT !.pc = "unwrap", !.out = "Ok", !.handle = handle]
  ELSE Goto(FnOf(f), [f EXCEPT !.out = "Ok", !.handle = handle], f.blk + 1)

Log(f, e) == [f EXCEPT !.events = Append(@, e)]

\* the entry points the host can call: the bound function, and the
\* constructor of its class when the bound function is a factory
InvocableFns == IF desc.kind = "Factory" THEN {"desc", "ctor"} ELSE {"desc"}

\* the host runtime calls an entry point on its thread
Invoke(fn) ==
  /\ ~Running
  /\ fn \in InvocableFns
  /\ LET d == IF fn = "ctor" THEN ctor ELSE desc
     IN /\ d.is_async => Len(tasks) < MaxTasks
        /\ stack' = <<Goto(d, NewFrame(fn, "entry", 0, flag), 1)>>
  /\ UNCHANGED <<desc, cb_call, target, reg, genVars, ctor, flag, tasks, factory_finished>>

\* `if ___CALL_FROM_FACTORY.with(|inner| inner.load(..)) { return null_mut(); }`
FactoryGuard ==
  /\ AtBlock("if ___CALL_FROM_FACTORY")
  /\ stack' = SetTop(IF flag
                       THEN [Top EXCEPT !.pc = "returned", !.handle = "null"]
                     ELSE Goto(FnOf(Top), Top, Top.blk + 1))
  /\ UNCHANGED <<desc, cb_call, target, reg, genVars, ctor, flag, tasks, factory_finished>>

\* `CallbackInfo::<args_len>::new(env, cb, None).and_then(|mut cb| ..)`
NewCallbackInfo ==
  /\ AtBlock("CallbackInfo::new")
  /\ \E ok \in BOOLEAN :
       stack' = SetTop(IF ok
                         THEN Goto(FnOf(Top), Log(Top, <<"CallbackInfo::new", 0>>), Top.blk + 1)
                       ELSE Fail(Top, "frame"))
  /\ UNCHANGED <<desc, cb_call, target, reg, genVars, ctor, flag, tasks, factory_finished>>

\* what one conversion statement can come to
Outcomes(s) == {"ok", "err"} \cup (IF s.validate THEN {"validate_err", "sentinel"} ELSE {})

\* the operations a statement attempts under an outcome
StmtEvents(s, o) ==
  CASE s.op = "this" -> <<<<"unwrap_raw", 0>>>>
    [] s.op = "cb" -> <<<<"closure", s.index>>>>
    [] s.op = "ty" /\ ~s.validate -> <<<<s.conv, s.index>>>>
    [] s.op = "ty" /\ s.validate /\ o \in {"validate_err", "sentinel"} ->
         <<<<"validate", s.index>>>>
    [] s.op = "ty" /\ s.validate /\ o \in {"ok", "err"} ->
         <<<<"validate", s.index>>, <<s.conv, s.index>>>>

\* Convert noting a failed conversion and going on to the next statement
Convert_keep_going ==
  /\ AtBlock("arg_conversions")
  /\ LET d == FnOf(Top)
         s == Stmts(d)[Top.idx]
     IN \E o \in Outcomes(s) :
          LET f == [Top EXCEPT !.events = @ \o StmtEvents(s, o)]
              g == IF o \in {"err", "validate_err"}
                     THEN [f EXCEPT !.out = "Err", !.err = "conversion"]
                   ELSE f
          IN stack' = SetTop(
               CASE o = "sentinel" ->
                      [f EXCEPT !.pc = "unwrap", !.out = "Ok", !.handle = "sentinel"]
                 [] o # "sentinel" /\ Top.idx < Len(Stmts(d)) -> [g EXCEPT !.idx = @ + 1]
                 [] OTHER -> Goto(d, g, Top.blk + 1))
  /\ UNCHANGED <<desc, cb_call, target, reg, genVars, ctor, flag, tasks, factory_finished>>

\* one statement of `#(#arg_conversions)*`
Convert ==
  /\ AtBlock("arg_conversions")
  /\ LET d == FnOf(Top)
         s == Stmts(d)[Top.idx]
     IN \E o \in Outcomes(s) :
          LET f == [Top EXCEPT !.events = @ \o StmtEvents(s, o)]
          IN stack' = SetTop(
               CASE o = "ok" /\ Top.idx < Len(Stmts(d)) -> [f EXCEPT !.idx = @ + 1]
                 [] o = "ok" /\ Top.idx >= Len(Stmts(d)) -> Goto(d, f, Top.blk + 1)
                 [] o = "sentinel" ->
                      [f EXCEPT !.pc = "unwrap", !.out = "Ok", !.handle = "sentinel"]
                 [] OTHER -> Fail(f, "conversion"))
  /\ UNCHANGED <<desc, cb_call, target, reg, genVars, ctor, flag, tasks, factory_finished>>

\* what the native function hands back
NativeResults(d) == IF d.is_ret_result THEN {"Ok", "Err"} ELSE {"Val"}

\* `let _ret = { receiver(args) };` on the runtime thread
NativeCall ==
  /\ AtBlock("native_call")
  /\ native_call(FnOf(Top)).mode = "inline"
  /\ LET d == FnOf(Top)
     IN \/ /\ HasOwnerRefArg(d)
           /\ stack' = SetTop(Fail(Log(Top, <<"Reference::from_value_ptr", 0>>), "conversion"))
        \/ \E r \in NativeResults(d) :
             stack' = SetTop([Top EXCEPT
               !.events = @ \o (IF HasOwnerRefArg(d)
                                  THEN <<<<"Reference::from_value_ptr", 0>>, <<"native", 0>>>>
                                ELSE <<<<"native", 0>>>>),
               !.native = r, !.pc = "ret"])
  /\ UNCHANGED <<desc, cb_call, target, reg, genVars, ctor, flag, tasks, factory_finished>>

\* `execute_tokio_future(env, async move { call }, |env, _ret| { ret })`
ExecuteTokioFuture ==
  /\ AtBlock("native_call")
  /\ native_call(FnOf(Top)).mode = "execute_tokio_future"
  /\ \/ /\ stack' = SetTop(Fail(Top, "host"))
        /\ tasks' = tasks
     \/ /\ tasks' = Append(tasks, NewTask)
        /\ stack' = SetTop(Succeed(
             [Log(Top, <<"execute_tokio_future", Len(tasks) + 1>>)
                EXCEPT !.task = Len(tasks) + 1], "promise"))
  /\ UNCHANGED <<desc, cb_call, target, reg, genVars, ctor, flag, factory_finished>>

\* the return assembly of the frame, and whether its operation is reached
Asm(f) == Assembly(native_call(FnOf(f)).ret)
AtRet == Running /\ Top.pc = "ret"
Reached(f) ==
  ~(f.native = "Err" /\ (Asm(f).unwrap \/ Asm(f).on_err \in {"propagate", "throw_null"}))

\* `_ret?` and `_ret.map(..)` on a failure
RetPropagate ==
  /\ AtRet
  /\ Top.native = "Err"
  /\ Asm(Top).unwrap \/ Asm(Top).on_err = "propagate"
  /\ stack' = SetTop(Fail(Top, "native"))
  /\ UNCHANGED <<desc, cb_call, target, reg, genVars, ctor, flag, tasks, factory_finished>>

\* the Err arm throwing and then handing the failure on
RetThrow_and_fail ==
  /\ AtRet
  /\ Top.native = "Err"
  /\ ~Asm(Top).unwrap
  /\ Asm(Top).on_err = "throw_null"
  /\ stack' = SetTop(Fail([Top EXCEPT !.thrown = Append(@, "native")], "native"))
  /\ UNCHANGED <<desc, cb_call, target, reg, genVars, ctor, flag, tasks, factory_finished>>

\* `Err(err) => { JsError::from(err).throw_into(env); Ok(null_mut()) }`
RetThrow ==
  /\ AtRet
  /\ Top.native = "Err"
  /\ ~Asm(Top).unwrap
  /\ Asm(Top).on_err = "throw_null"
  /\ stack' = SetTop(Succeed([Top EXCEPT !.thrown = Append(@, "native")], "null"))
  /\ UNCHANGED <<desc, cb_call, target, reg, genVars, ctor, flag, tasks, factory_finished>>

\* `ToNapiValue::to_napi_value(env, ..)`
RetConvert ==
  /\ AtRet
  /\ Reached(Top)
  /\ Asm(Top).op \in {"convert", "unit"}
  /\ \E ok \in BOOLEAN :
       stack' = SetTop(IF ok
                         THEN Succeed(Log(Top, <<"to_napi_value", 0>>), "value")
                       ELSE Fail(Log(Top, <<"to_napi_value", 0>>), "retconv"))
  /\ UNCHANGED <<desc, cb_call, target, reg, genVars, ctor, flag, tasks, factory_finished>>

\* `cb.this`
RetThis ==
  /\ AtRet
  /\ Reached(Top)
  /\ Asm(Top).op = "this"
  /\ stack' = SetTop(Succeed(Log(Top, <<"cb.this", 0>>), "this"))
  /\ UNCHANGED <<desc, cb_call, target, reg, genVars, ctor, flag, tasks, factory_finished>>

\* `cb.construct(js_name, ..)`
RetConstruct ==
  /\ AtRet
  /\ Reached(Top)
  /\ Asm(Top).op = "construct"
  /\ \E ok \in BOOLEAN :
       stack' = SetTop(IF ok
                         THEN Succeed(Log(Top, <<"cb.construct", 0>>), "this")
                       ELSE Fail(Log(Top, <<"cb.construct", 0>>), "host"))
  /\ UNCHANGED <<desc, cb_call, target, reg, genVars, ctor, flag, tasks, factory_finished>>

\* `cb.factory(js_name, ..)`: sets the flag and has the host construct a new
\* instance, which calls the class constructor's entry point
RetFactory ==
  /\ AtRet
  /\ Reached(Top)
  /\ Asm(Top).op = "factory"
  /\ flag' = TRUE
  /\ stack' = Append(SetTop([Log(Top, <<"cb.factory", 0>>) EXCEPT !.pc = "napi_new_instance"]),
                     Goto(ctor, NewFrame("ctor", "entry", 0, flag'), 1))
  /\ UNCHANGED <<desc, cb_call, target, reg, genVars, ctor, tasks, factory_finished>>

\* the operations of one kind a frame has attempted
Count(events, name) == Cardinality({j \in 1..Len(events) : events[j][1] = name})

\* the constructor's entry point returns into cb.factory
FactoryConstructed ==
  /\ Len(stack) >= 2
  /\ Top.pc = "returned"
  /\ stack' = [SubSeq(stack, 1, Len(stack) - 1) EXCEPT ![Len(stack) - 1] =
                 [@ EXCEPT !.pc = "factory_clear",
                           !.ctor_body = @ + Count(Top.events, "native")]]
  /\ UNCHANGED <<desc, cb_call, target, reg, genVars, ctor, flag, tasks, factory_finished>>

\* cb.factory clears the flag and wraps the produced value in the new instance
FactoryClear ==
  /\ Running
  /\ Top.pc = "factory_clear"
  /\ flag' = FALSE
  /\ factory_finished' = TRUE
  /\ \E ok \in BOOLEAN :
       stack' = SetTop(IF ok THEN Succeed(Top, "instance") ELSE Fail(Top, "host"))
  /\ UNCHANGED <<desc, cb_call, target, reg, genVars, ctor, tasks>>

\* Unwrap handing back null for a failure without throwing
Unwrap_silent ==
  /\ Running
  /\ Top.role = "entry"
  /\ Top.pc = "unwrap"
  /\ stack' = SetTop(IF Top.out = "Err"
                       THEN [Top EXCEPT !.pc = "returned", !.handle = "null"]
                     ELSE [Top EXCEPT !.pc = "returned"])
  /\ UNCHANGED <<desc, cb_call, target, reg, genVars, ctor, flag, tasks, factory_finished>>

\* `.unwrap_or_else(|e| { JsError::from(e).throw_into(env); null_mut() })`
Unwrap ==
  /\ Running
  /\ Top.role = "entry"
  /\ Top.pc = "unwrap"
  /\ stack' = SetTop(IF Top.out = "Err"
                       THEN [Top EXCEPT !.pc = "returned", !.handle = "null",
                                        !.thrown = Append(@, Top.err)]
                     ELSE [Top EXCEPT !.pc = "returned"])
  /\ UNCHANGED <<desc, cb_call, target, reg, genVars, ctor, flag, tasks, factory_finished>>

\* the entry point returns to the host
Return ==
  /\ Len(stack) = 1
  /\ Top.role = "entry"
  /\ Top.pc = "returned"
  /\ stack' = <<>>
  /\ tasks' = IF Top.task = 0 THEN tasks
              ELSE [tasks EXCEPT ![Top.task].entry_thrown = Len(Top.thrown),
                                 ![Top.task].entry_handle = Top.handle]
  /\ UNCHANGED <<desc, cb_call, target, reg, genVars, ctor, flag, factory_finished>>

\* the task executor polls the future `async move { call }` to its end
TaskRun(t) ==
  /\ t \in 1..Len(tasks)
  /\ tasks[t].st = "running"
  /\ \/ /\ HasOwnerRefArg(desc)
        /\ tasks' = [tasks EXCEPT ![t].st = "finished", ![t].res = "Err",
                                  ![t].events = Append(@, <<"Reference::from_value_ptr", 0>>)]
     \/ \E r \in (IF desc.is_ret_result THEN {"Ok", "Err"} ELSE {"Ok"}) :
          tasks' = [tasks EXCEPT
            ![t].st = "finished", ![t].res = r,
            ![t].events = @ \o (IF HasOwnerRefArg(desc)
                                  THEN <<<<"Reference::from_value_ptr", 0>>, <<"native", 0>>>>
                                ELSE <<<<"native", 0>>>>)]
  /\ UNCHANGED <<desc, cb_call, target, reg, genVars, ctor, flag, stack, factory_finished>>

\* Complete not waiting for the future to finish
Complete_early(t) ==
  /\ ~Running
  /\ t \in 1..Len(tasks)
  /\ tasks[t].st \in {"running", "finished"}
  /\ IF tasks[t].res = "Err"
       THEN /\ tasks' = [tasks EXCEPT ![t].st = "settled", ![t].deferred = "rejected",
                                      ![t].handler_runs = @ + 1]
            /\ stack' = stack
     ELSE /\ tasks' = [tasks EXCEPT ![t].st = "resolving", ![t].handler_runs = @ + 1]
          /\ stack' = <<[NewFrame("desc", "handler", t, flag) EXCEPT !.pc = "ret", !.native = "Val"]>>
  /\ UNCHANGED <<desc, cb_call, target, reg, genVars, ctor, flag, factory_finished>>

\* the completion of a finished task, back on the runtime thread: a failure
\* rejects the deferred value, a value goes to the resolver `|env, _ret| { ret }`
Complete(t) ==
  /\ ~Running
  /\ t \in 1..Len(tasks)
  /\ tasks[t].st = "finished"
  /\ IF tasks[t].res = "Err"
       THEN /\ tasks' = [tasks EXCEPT ![t].st = "settled", ![t].deferred = "rejected",
                                      ![t].handler_runs = @ + 1]
            /\ stack' = stack
     ELSE /\ tasks' = [tasks EXCEPT ![t].st = "resolving", ![t].handler_runs = @ + 1]
          /\ stack' = <<[NewFrame("desc", "handler", t, flag) EXCEPT !.pc = "ret", !.native = "Val"]>>
  /\ UNCHANGED <<desc, cb_call, target, reg, genVars, ctor, flag, factory_finished>>

\* Settle dropping a resolver failure instead of rejecting
Settle_drop_failure ==
  /\ Len(stack) = 1
  /\ Top.role = "handler"
  /\ Top.pc = "unwrap"
  /\ tasks' = [tasks EXCEPT
       ![Top.task].st = "settled",
       ![Top.task].deferred = IF Top.out = "Err" THEN "pending" ELSE "fulfilled",
       ![Top.task].value = IF Top.out = "Err" THEN "none" ELSE Top.handle,
       ![Top.task].handler_err = IF Top.out = "Err" THEN Top.err ELSE "none",
       ![Top.task].handler_events = Top.events]
  /\ stack' = <<>>
  /\ UNCHANGED <<desc, cb_call, target, reg, genVars, ctor, flag, factory_finished>>

\* the resolver's value settles the deferred value
Settle ==
  /\ Len(stack) = 1
  /\ Top.role = "handler"
  /\ Top.pc = "unwrap"
  /\ tasks' = [tasks EXCEPT
       ![Top.task].st = "settled",
       ![Top.task].deferred = IF Top.out = "Err" THEN "rejected" ELSE "fulfilled",
       ![Top.task].value = IF Top.out = "Err" THEN "none" ELSE Top.handle,
       ![Top.task].handler_err = IF Top.out = "Err" THEN Top.err ELSE "none",
       ![Top.task].handler_events = Top.events]
  /\ stack' = <<>>
  /\ UNCHANGED <<desc, cb_call, target, reg, genVars, ctor, flag, factory_finished>>

Init ==
  /\ desc \in ExecDescriptors
  /\ ctor \in (IF desc.kind = "Factory" THEN CtorDescriptors ELSE {DefaultCtor})
  /\ gen_pc = "emitted"
  /\ arg_i = Len(desc.args)
  /\ planner = gen_arg_conversions(desc)
  /\ unit = EmittedUnit(desc, <<>>)
  /\ cb_call = NoCall
  /\ target = NoTarget
  /\ reg = NoReg
  /\ RunIdle

RuntimeStep ==
  \/ FactoryGuard
  \/ NewCallbackInfo
  \/ Convert
  \/ NativeCall
  \/ ExecuteTokioFuture
  \/ RetPropagate
  \/ RetThrow
  \/ RetConvert
  \/ RetThis
  \/ RetConstruct
  \/ RetFactory
  \/ FactoryConstructed
  \/ FactoryClear
  \/ Unwrap
  \/ Return
  \/ Settle

ExecutorStep == \E t \in 1..MaxTasks : TaskRun(t)

CompletionStep == \E t \in 1..MaxTasks : Complete(t)

Next ==
  \/ \E fn \in {"desc", "ctor"} : Invoke(fn)
  \/ RuntimeStep
  \/ ExecutorStep
  \/ CompletionStep

Spec == Init /\ [][Next]_vars

\* longest parameter list under the fair scheduling
MaxFairArgs == 1

\* a parameter reaches the executor only as an owner reference evaluated
\* inside the future; `T` stands for every parameter converted before dispatch
FairArgKinds == {PatTypeArg("T"), PatTypeArg("Reference<C>")}

\* scheduling is studied for one constructor and without strict validation,
\* neither of which the executor or the event loop can observe
FairInit ==
  /\ Init
  /\ Len(desc.args) <= MaxFairArgs
  /\ \A k \in 1..Len(desc.args) : desc.args[k] \in FairArgKinds
  /\ ~desc.strict
  /\ ctor = DefaultCtor

\* the runtime thread runs an entry point or a handler to its end, the
\* executor polls every future it was handed, and the event loop serves a
\* queued completion even when the host keeps calling entry points
FairSpec ==
  /\ FairInit
  /\ [][Next]_vars
  /\ WF_vars(RuntimeStep)
  /\ WF_vars(ExecutorStep)
  /\ SF_vars(CompletionStep)

\* ------------------------------------------------------------------ trampoline
MaxCbArgs == 2
MaxCbParams == 2
MaxCalls == 2

\* the native types a callback takes, and the values of each
CbTypes == {"A", "B"}
NativeVals == {1, 2}

\* CallbackArg's args and ret, as gen_cb_arg_conversion reads them
CallbackSigs == [args : SeqsUpTo(CbTypes, MaxCbArgs), ret : {"None", "R"}]

\* a lambda whose host function is read from slot 0 whatever the index
gen_cb_lambda_slot_zero(index, sig) ==
  [inputs |-> [i \in 1..Len(sig.args) |-> <<"callback_arg", i - 1, sig.args[i]>>],
   arg_conversions |-> [i \in 1..Len(sig.args) |-> <<"to_napi_value", i - 1, sig.args[i]>>],
   this |-> "cb.this()",
   func |-> 0,
   ret |-> IF sig.ret # "None" THEN "from_napi_value" ELSE "Ok(())"]

\* the lambda gen_cb_arg_conversion quotes for the callback read from slot index
gen_cb_lambda(index, sig) ==
  [inputs |-> [i \in 1..Len(sig.args) |-> <<"callback_arg", i - 1, sig.args[i]>>],
   arg_conversions |-> [i \in 1..Len(sig.args) |-> <<"to_napi_value", i - 1, sig.args[i]>>],
   this |-> "cb.this()",
   func |-> index,
   ret |-> IF sig.ret # "None" THEN "from_napi_value" ELSE "Ok(())"]

\* ToNapiValue::to_napi_value of a native value of type ty
ToNapi(ty, v) == <<ty, v>>

\* the call frame's argument slots: slot s holds the host's s-th argument
FrameSlots(n) == [s \in 1..n |-> <<"js_arg", s - 1>>]

\* cb.get_arg(index)
GetArg(frame, index) == frame[index + 1]

CbArgKinds == {PatTypeArg("Env"), PatTypeArg("T"), CallbackArg(TRUE), CallbackArg(FALSE)}

\* functions with at least one callback parameter
CbDescriptors ==
  {NapiFn("Plain", "None", "None", a, "None", FALSE, FALSE, FALSE) :
     a \in {b \in SeqsUpTo(CbArgKinds, MaxCbParams) :
              \E k \in 1..Len(b) : b[k].kind = "Callback"}}

\* the statement of gen_arg_conversions(d) that binds parameter k
StmtOfParam(d, k) ==
  LET st == gen_arg_conversions(d)
      j == CHOOSE j \in 1..Len(st.arg_conversions) :
             st.arg_conversions[j].ident = st.args[k]
  IN st.arg_conversions[j]

\* the entry point ran its conversions over a frame; parameter k's callback
\* is now held by the native function
CbInit ==
  /\ desc \in CbDescriptors
  /\ gen_pc = "planned"
  /\ arg_i = Len(desc.args)
  /\ planner = gen_arg_conversions(desc)
  /\ unit = NoUnit
  /\ ctor = DefaultCtor
  /\ target = NoTarget
  /\ reg = NoReg
  /\ RunIdle
  /\ \E k \in 1..Len(desc.args), sig \in CallbackSigs, this \in {"js_this"} :
       /\ desc.args[k].kind = "Callback"
       /\ cb_call = [NoCall EXCEPT
            !.sig = sig,
            !.param = k,
            !.lambda = gen_cb_lambda(StmtOfParam(desc, k).index, sig),
            !.this = this,
            !.frame = FrameSlots(Len(planner.arg_conversions)),
            !.pc = "idle"]

\* the native function calls the closure with native arguments
CbInvoke ==
  /\ cb_call.pc = "idle"
  /\ cb_call.calls < MaxCalls
  /\ \E native \in [1..Len(cb_call.lambda.inputs) -> NativeVals] :
       cb_call' = [cb_call EXCEPT
         !.pc = "args", !.calls = @ + 1, !.native = native, !.args = <<>>,
         !.ret_ptr = 0, !.result = <<"none", "", 0>>, !.events = <<>>,
         !.called = <<"", <<"", 0>>, <<>>>>]
  /\ UNCHANGED <<desc, genVars, runVars, target, reg>>

\* one element of `vec![ to_napi_value(env, callback_arg_i)? , .. ]`
CbConvertArg ==
  /\ cb_call.pc = "args"
  /\ Len(cb_call.args) < Len(cb_call.lambda.arg_conversions)
  /\ LET i == Len(cb_call.args) + 1
         conv == cb_call.lambda.arg_conversions[i]
         logged == Append(cb_call.events, <<conv[1], conv[2]>>)
     IN \E ok \in BOOLEAN :
          cb_call' =
            IF ok
              THEN [cb_call EXCEPT !.events = logged,
                                   !.args = Append(@, ToNapi(conv[3], cb_call.native[conv[2] + 1]))]
            ELSE [cb_call EXCEPT !.events = logged,
                                 !.result = <<"Err", conv[1], conv[2]>>,
                                 !.pc = "returned"]
  /\ UNCHANGED <<desc, genVars, runVars, target, reg>>

\* check_status!(napi_call_function(env, cb.this(), cb.get_arg(index), ..))?
CbCallFunction ==
  /\ cb_call.pc = "args"
  /\ Len(cb_call.args) = Len(cb_call.lambda.arg_conversions)
  /\ LET logged == Append(cb_call.events, <<"napi_call_function", 0>>)
         called == <<cb_call.this, GetArg(cb_call.frame, cb_call.lambda.func), cb_call.args>>
     IN \/ \E r \in NativeVals :
             cb_call' = [cb_call EXCEPT !.events = logged, !.called = called,
                                        !.ret_ptr = r, !.pc = "ret"]
        \/ cb_call' = [cb_call EXCEPT !.events = logged, !.called = called,
                                      !.result = <<"Err", "Failed to call napi callback", 0>>,
                                      !.pc = "returned"]
  /\ UNCHANGED <<desc, genVars, runVars, target, reg>>

\* `let ret = from_napi_value(env, ret_ptr)?; Ok(ret)`, or `Ok(())`
CbConvertRet ==
  /\ cb_call.pc = "ret"
  /\ IF cb_call.lambda.ret = "from_napi_value"
       THEN LET logged == Append(cb_call.events, <<"from_napi_value", 0>>)
            IN \E ok \in BOOLEAN :
                 cb_call' = [cb_call EXCEPT
                   !.events = logged,
                   !.result = IF ok THEN <<"Ok", "ret", cb_call.ret_ptr>>
                              ELSE <<"Err", "from_napi_value", 0>>,
                   !.pc = "returned"]
     ELSE cb_call' = [cb_call EXCEPT !.result = <<"Ok", "()", 0>>, !.pc = "returned"]
  /\ UNCHANGED <<desc, genVars, runVars, target, reg>>

\* the closure returned to the native function, which may call it again
CbReturn ==
  /\ cb_call.pc = "returned"
  /\ cb_call' = [cb_call EXCEPT !.pc = "idle"]
  /\ UNCHANGED <<desc, genVars, runVars, target, reg>>

CbNext == CbInvoke \/ CbConvertArg \/ CbCallFunction \/ CbConvertRet \/ CbReturn

CbSpec == CbInit /\ [][CbNext]_vars

\* ------------------------------------------------------------------ cli: Target::new
\* strings are sequences of characters
AVAILABLE_TARGETS ==
  {
   <<"a", "a", "r", "c", "h", "6", "4", "-", "a", "p", "p", "l", "e", "-", "d", "a", "r", "w", "i", "n">>,  \* aarch64-apple-darwin
   <<"a", "a", "r", "c", "h", "6", "4", "-", "l", "i", "n", "u", "x", "-", "a", "n", "d", "r", "o", "i", "d">>,  \* aarch64-linux-android
   <<"a", "a", "r", "c", "h", "6", "4", "-", "u", "n", "k", "n", "o", "w", "n", "-", "l", "i", "n", "u", "x", "-", "g", "n", "u">>,  \* aarch64-unknown-linux-gnu
   <<"a", "a", "r", "c", "h", "6", "4", "-", "u", "n", "k", "n", "o", "w", "n", "-", "l", "i", "n", "u", "x", "-", "m", "u", "s", "l">>,  \* aarch64-unknown-linux-musl
   <<"a", "a", "r", "c", "h", "6", "4", "-", "p", "c", "-", "w", "i", "n", "d", "o", "w", "s", "-", "m", "s", "v", "c">>,  \* aarch64-pc-windows-msvc
   <<"x", "8", "6", "_", "6", "4", "-", "a", "p", "p", "l", "e", "-", "d", "a", "r", "w", "i", "n">>,  \* x86_64-apple-darwin
   <<"x", "8", "6", "_", "6", "4", "-", "p", "c", "-", "w", "i", "n", "d", "o", "w", "s", "-", "m", "s", "v", "c">>,  \* x86_64-pc-windows-msvc
   <<"x", "8", "6", "_", "6", "4", "-", "u", "n", "k", "n", "o", "w", "n", "-", "l", "i", "n", "u", "x", "-", "g", "n", "u">>,  \* x86_64-unknown-linux-gnu
   <<"x", "8", "6", "_", "6", "4", "-", "u", "n", "k", "n", "o", "w", "n", "-", "l", "i", "n", "u", "x", "-", "m", "u", "s", "l">>,  \* x86_64-unknown-linux-musl
   <<"x", "8", "6", "_", "6", "4", "-", "u", "n", "k", "n", "o", "w", "n", "-", "f", "r", "e", "e", "b", "s", "d">>,  \* x86_64-unknown-freebsd
   <<"i", "6", "8", "6", "-", "p", "c", "-", "w", "i", "n", "d", "o", "w", "s", "-", "m", "s", "v", "c">>,  \* i686-pc-windows-msvc
   <<"a", "r", "m", "v", "7", "-", "u", "n", "k", "n", "o", "w", "n", "-", "l", "i", "n", "u", "x", "-", "g", "n", "u", "e", "a", "b", "i", "h", "f">>,  \* armv7-unknown-linux-gnueabihf
   <<"a", "r", "m", "v", "7", "-", "l", "i", "n", "u", "x", "-", "a", "n", "d", "r", "o", "i", "d", "e", "a", "b", "i">>}  \* armv7-linux-androideabi

DEFAULT_TARGETS ==
  {
   <<"x", "8", "6", "_", "6", "4", "-", "a", "p", "p", "l", "e", "-", "d", "a", "r", "w", "i", "n">>,  \* x86_64-apple-darwin
   <<"x", "8", "6", "_", "6", "4", "-", "p", "c", "-", "w", "i", "n", "d", "o", "w", "s", "-", "m", "s", "v", "c">>,  \* x86_64-pc-windows-msvc
   <<"x", "8", "6", "_", "6", "4", "-", "u", "n", "k", "n", "o", "w", "n", "-", "l", "i", "n", "u", "x", "-", "g", "n", "u">>}  \* x86_64-unknown-linux-gnu

\* triples Target::new can be handed besides the available ones (build --target)
OtherTriples ==
  {
   <<"a", "a", "r", "c", "h", "6", "4", "-", "f", "u", "c", "h", "s", "i", "a">>,  \* aarch64-fuchsia
   <<"r", "i", "s", "c", "v", "6", "4", "g", "c", "-", "u", "n", "k", "n", "o", "w", "n", "-", "l", "i", "n", "u", "x", "-", "g", "n", "u">>,  \* riscv64gc-unknown-linux-gnu
   <<"x", "8", "6", "_", "6", "4", "-", "u", "n", "k", "n", "o", "w", "n", "-", "i", "l", "l", "u", "m", "o", "s">>,  \* x86_64-unknown-illumos
   <<"x", "8", "6", "_", "6", "4">>,  \* x86_64
   <<>>}  \* the empty string

\* NodeArch::from_str: Some(arch) as a one-element sequence, None as the empty one
NodeArch_from_str(s) ==
  CASE s = <<"x", "3", "2">> -> <<"x32">>
    [] s = <<"x", "8", "6", "_", "6", "4">> -> <<"x64">>
    [] s = <<"i", "6", "8", "6">> -> <<"ia32">>
    [] s = <<"a", "r", "m", "v", "7">> -> <<"arm">>
    [] s = <<"a", "a", "r", "c", "h", "6", "4">> -> <<"arm64">>
    [] s = <<"m", "i", "p", "s">> -> <<"mips">>
    [] s = <<"m", "i", "p", "s", "e", "l">> -> <<"mipsel">>
    [] s = <<"p", "p", "c">> -> <<"ppc">>
    [] s = <<"p", "p", "c", "6", "4">> -> <<"ppc64">>
    [] s = <<"s", "3", "9", "0">> -> <<"s390">>
    [] s = <<"s", "3", "9", "0", "x">> -> <<"s390x">>
    [] OTHER -> <<>>

\* Display for NodeArch
NodeArch_fmt(a) ==
  CASE a = "x32" -> <<"x", "8", "6">>
    [] a = "x64" -> <<"x", "6", "4">>
    [] a = "ia32" -> <<"i", "a", "3", "2">>
    [] a = "arm" -> <<"a", "r", "m">>
    [] a = "arm64" -> <<"a", "r", "m", "6", "4">>
    [] a = "mips" -> <<"m", "i", "p", "s">>
    [] a = "mipsel" -> <<"m", "i", "p", "s", "e", "l">>
    [] a = "ppc" -> <<"p", "p", "c">>
    [] a = "ppc64" -> <<"p", "p", "c", "6", "4">>
    [] a = "s390" -> <<"s", "3", "9", "0">>
    [] OTHER -> <<"s", "3", "9", "0", "x">>

\* NodePlatform::from_str, Unknown carrying the string
NodePlatform_from_str(s) ==
  CASE s = <<"d", "a", "r", "w", "i", "n">> -> <<"Darwin", <<>>>>
    [] s = <<"f", "r", "e", "e", "b", "s", "d">> -> <<"Freebsd", <<>>>>
    [] s = <<"w", "i", "n", "d", "o", "w", "s">> -> <<"Windows", <<>>>>
    [] s = <<"l", "i", "n", "u", "x">> -> <<"Linux", <<>>>>
    [] s = <<"a", "n", "d", "r", "o", "i", "d">> -> <<"Android", <<>>>>
    [] s = <<"f", "u", "c", "h", "s", "i", "a">> -> <<"Fuchsia", <<>>>>
    [] OTHER -> <<"Unknown", s>>

\* Display for NodePlatform
NodePlatform_fmt(p) ==
  CASE p[1] = "Darwin" -> <<"d", "a", "r", "w", "i", "n">>
    [] p[1] = "Freebsd" -> <<"f", "r", "e", "e", "b", "s", "d">>
    [] p[1] = "Windows" -> <<"w", "i", "n", "3", "2">>
    [] p[1] = "Linux" -> <<"l", "i", "n", "u", "x">>
    [] p[1] = "Android" -> <<"a", "n", "d", "r", "o", "i", "d">>
    [] p[1] = "Fuchsia" -> <<"f", "u", "c", "h", "s", "i", "a">>
    [] OTHER -> p[2]

\* str::ends_with
ends_with(s, suffix) ==
  Len(s) >= Len(suffix) /\ SubSeq(s, Len(s) - Len(suffix) + 1, Len(s)) = suffix

\* String::insert(idx, ch)
insert(s, idx, ch) == SubSeq(s, 1, idx) \o <<ch>> \o SubSeq(s, idx + 1, Len(s))

\* the triple left as it is, whatever its ending
Normalise_keep(t) == t

\* armv7-linux-androideabi => armv7-linux-android-eabi
Normalise(t) ==
  IF ends_with(t, <<"a", "n", "d", "r", "o", "i", "d", "e", "a", "b", "i">>) THEN insert(t, Len(t) - 4, "-") ELSE t

TargetInit ==
  /\ desc = DefaultCtor
  /\ gen_pc = "planned"
  /\ arg_i = Len(desc.args)
  /\ planner = gen_arg_conversions(desc)
  /\ unit = NoUnit
  /\ ctor = DefaultCtor
  /\ cb_call = NoCall
  /\ reg = NoReg
  /\ RunIdle
  /\ \E triple \in AVAILABLE_TARGETS \cup DEFAULT_TARGETS \cup OtherTriples :
       target = [NoTarget EXCEPT !.triple = triple, !.pc = "new"]

\* `let mut target = triple.to_string()` and the androideabi split
TargetNormalise ==
  /\ target.pc = "new"
  /\ target' = [target EXCEPT !.target = Normalise(target.triple), !.pc = "split"]
  /\ UNCHANGED <<desc, genVars, runVars, cb_call, reg>>

\* target.split('-') reading one character
TargetSplitChar ==
  /\ target.pc = "split"
  /\ target.pos < Len(target.target)
  /\ LET ch == target.target[target.pos + 1]
     IN target' =
          IF ch = "-"
            THEN [target EXCEPT !.pos = @ + 1, !.parts = Append(@, target.cur), !.cur = <<>>]
          ELSE [target EXCEPT !.pos = @ + 1, !.cur = Append(@, ch)]
  /\ UNCHANGED <<desc, genVars, runVars, cb_call, reg>>

\* target.split('-') at the end of the string; collect::<Vec<_>>()
TargetSplitEnd ==
  /\ target.pc = "split"
  /\ target.pos = Len(target.target)
  /\ target' = [target EXCEPT !.parts = Append(@, target.cur), !.cur = <<>>, !.pc = "select"]
  /\ UNCHANGED <<desc, genVars, runVars, cb_call, reg>>

\* `let (cpu, sys, abi) = ..`; parts[2] panics on a vector shorter than three
TargetSelect ==
  /\ target.pc = "select"
  /\ LET parts == target.parts
     IN target' =
          IF Len(parts) = 2
            THEN [target EXCEPT !.cpu = parts[1], !.sys = parts[2], !.abi = <<>>,
                                !.pc = "from_str"]
          ELSE IF Len(parts) < 3
            THEN [target EXCEPT !.pc = "panicked"]
          ELSE [target EXCEPT !.cpu = parts[1], !.sys = parts[3],
                              !.abi = IF Len(parts) >= 4 THEN <<parts[4]>> ELSE <<>>,
                              !.pc = "from_str"]
  /\ UNCHANGED <<desc, genVars, runVars, cb_call, reg>>

\* NodePlatform::from_str(sys); NodeArch::from_str(cpu).unwrap_or_else(panic)
TargetFromStr ==
  /\ target.pc = "from_str"
  /\ LET arch == NodeArch_from_str(target.cpu)
     IN target' =
          IF arch = <<>>
            THEN [target EXCEPT !.platform = NodePlatform_from_str(target.sys),
                                !.pc = "panicked"]
          ELSE [target EXCEPT !.platform = NodePlatform_from_str(target.sys),
                              !.arch = arch, !.pc = "Self"]
  /\ UNCHANGED <<desc, genVars, runVars, cb_call, reg>>

\* `Self { triple, platform_arch_abi, platform, arch, abi }`
TargetBuild ==
  /\ target.pc = "Self"
  /\ LET head == NodePlatform_fmt(target.platform) \o <<"-">> \o NodeArch_fmt(target.arch[1])
     IN target' = [target EXCEPT
          !.platform_arch_abi = IF target.abi # <<>> THEN head \o <<"-">> \o target.abi[1]
                                ELSE head,
          !.pc = "built"]
  /\ UNCHANGED <<desc, genVars, runVars, cb_call, reg>>

TargetNext ==
  \/ TargetNormalise \/ TargetSplitChar \/ TargetSplitEnd
  \/ TargetSelect \/ TargetFromStr \/ TargetBuild

TargetSpec == TargetInit /\ [][TargetNext]_vars

\* ------------------------------------------------------------------ gen_fn_register, the name
MaxNameLen == 4

\* the bytes an exported name is made of
NameBytes == {"f", "n", "_"}

\* self.js_name
ExportedNames == SeqsUpTo(NameBytes, MaxNameLen) \ {<<>>}

\* `format!("{}\0", &self.js_name)`
format_js_name(name) == name \o <<"NUL">>

\* a free function and a method of class C
RegDescriptors ==
  {NapiFn("Plain", "None", "None", <<>>, "None", FALSE, FALSE, FALSE),
   NapiFn("Plain", "Ref", "C", <<>>, "None", FALSE, FALSE, FALSE)}

RegInit ==
  /\ desc \in RegDescriptors
  /\ gen_pc = "gen_fn_register"
  /\ arg_i = Len(desc.args)
  /\ planner = gen_arg_conversions(desc)
  /\ unit = NoUnit
  /\ ctor = DefaultCtor
  /\ cb_call = NoCall
  /\ target = NoTarget
  /\ RunIdle
  /\ \E name \in ExportedNames :
       reg = [NoReg EXCEPT !.exported_name = name, !.pc = "parent"]

\* `if self.parent.is_some() { quote! {} } else { .. }`
RegParent ==
  /\ reg.pc = "parent"
  /\ reg' = [reg EXCEPT !.pc = IF desc.parent # "None" THEN "quoted" ELSE "js_name"]
  /\ UNCHANGED <<desc, genVars, runVars, cb_call, target>>

\* `let js_name = format!("{}\0", &self.js_name)`
RegJsName ==
  /\ reg.pc = "js_name"
  /\ reg' = [reg EXCEPT !.js_name = format_js_name(reg.exported_name), !.pc = "name_len"]
  /\ UNCHANGED <<desc, genVars, runVars, cb_call, target>>

\* `let name_len = js_name.len()`
RegNameLen ==
  /\ reg.pc = "name_len"
  /\ reg' = [reg EXCEPT !.name_len = Len(reg.js_name), !.pc = "quote"]
  /\ UNCHANGED <<desc, genVars, runVars, cb_call, target>>

\* the quoted thunk and initializer with #js_name and #name_len filled in
RegQuote ==
  /\ reg.pc = "quote"
  /\ reg' = [reg EXCEPT
       !.create_function = [utf8name |-> reg.js_name, length |-> reg.name_len],
       !.export = reg.js_name,
       !.pc = "quoted"]
  /\ UNCHANGED <<desc, genVars, runVars, cb_call, target>>

RegNext == RegParent \/ RegJsName \/ RegNameLen \/ RegQuote

RegSpec == RegInit /\ [][RegNext]_vars

\* ------------------------------------------------------------------ properties
\* the dispatch table of the design, one row per disjoint case
ReturnsSelf(d) == d.ret \in {"& Self", "&mut Self"}

TableAssembly(d) ==
  CASE d.ret = "None" ->
         [op |-> "unit", unwrap |-> FALSE, on_err |-> "none"]
    [] d.ret # "None" /\ d.kind = "Constructor" ->
         [op |-> "construct", unwrap |-> d.is_ret_result, on_err |-> "none"]
    [] d.ret # "None" /\ d.kind = "Factory" ->
         [op |-> "factory", unwrap |-> d.is_ret_result, on_err |-> "none"]
    [] d.ret # "None" /\ d.kind = "Plain" /\ d.is_ret_result /\ d.is_async ->
         [op |-> "convert", unwrap |-> FALSE, on_err |-> "none"]
    [] d.ret # "None" /\ d.kind = "Plain" /\ d.is_ret_result /\ ~d.is_async /\ ReturnsSelf(d) ->
         [op |-> "this", unwrap |-> FALSE, on_err |-> "propagate"]
    [] d.ret # "None" /\ d.kind = "Plain" /\ d.is_ret_result /\ ~d.is_async /\ ~ReturnsSelf(d) ->
         [op |-> "convert", unwrap |-> FALSE, on_err |-> "throw_null"]
    [] d.ret # "None" /\ d.kind = "Plain" /\ ~d.is_ret_result /\ ReturnsSelf(d) ->
         [op |-> "this", unwrap |-> FALSE, on_err |-> "none"]
    [] d.ret # "None" /\ d.kind = "Plain" /\ ~d.is_ret_result /\ ~ReturnsSelf(d) ->
         [op |-> "convert", unwrap |-> FALSE, on_err |-> "none"]

\* C1: for every kind, fallibility, synchronicity, return-self and return
\* type present or absent, the return assembly gen_fn_return emitted is the
\* one the dispatch table gives for that combination.
C1_ReturnMatchesTable ==
  gen_pc \notin {"gen_fn_receiver", "panicked", "gen_fn_return"} =>
    Assembly(unit.ret) = TableAssembly(desc)

\* a fallible asynchronous method returning `& Self` was given the direct
\* conversion, and a synchronous one the receiver handle
C1_Witness ==
  /\ gen_pc = "emitted"
  /\ desc.kind = "Plain" /\ desc.is_ret_result /\ desc.is_async /\ desc.ret = "& Self"
  /\ unit.ret = "<ty>::to_napi_value(env, _ret)"

\* parameter k of d reads a call-frame slot: a callback, or a value that is
\* neither the environment handle nor a reference to the owner
SlotConsuming(d, k) ==
  \/ d.args[k].kind = "Callback"
  \/ /\ d.args[k].kind = "PatType"
     /\ d.args[k].ty # "Env"
     /\ ~(d.parent # "None" /\ d.args[k].ty = "Reference<C>" /\ d.parent = "C")

\* the slot-consuming parameters among the first n, in order
SlotConsumers(d, n) == SelectSeq([k \in 1..n |-> k], LAMBDA k : SlotConsuming(d, k))

\* the statements that read a slot (everything but the receiver recovery)
SlotStmts(stmts) == SelectSeq(stmts, LAMBDA s : s.op # "this")

\* C4: the slot read for a slot-consuming parameter is the number of
\* slot-consuming parameters before it; environment-handle and
\* owner-reference parameters read no slot and do not advance the index, so
\* the slots read are exactly 0..k-1 in order.
C4_SlotIsPositionAmongConsumers ==
  LET ks == SlotConsumers(desc, arg_i)
      ss == SlotStmts(planner.arg_conversions)
  IN /\ Len(ss) = Len(ks)
     /\ \A j \in 1..Len(ss) :
          /\ ss[j].index = Cardinality({k \in 1..(ks[j] - 1) : SlotConsuming(desc, k)})
          /\ ss[j].index = j - 1
          /\ planner.args[ks[j]] = <<"arg", ss[j].index>>
     /\ \A k \in 1..arg_i :
          ~SlotConsuming(desc, k) => planner.args[k] \in {EnvExpr, OwnerRefExpr}

\* [Env, T, T] walked to its end: the two values were read from slots 0 and 1
C4_Witness ==
  /\ gen_pc = "planned"
  /\ desc.args = <<PatTypeArg("Env"), PatTypeArg("T"), PatTypeArg("T")>>
  /\ [j \in 1..2 |-> SlotStmts(planner.arg_conversions)[j].index] = <<0, 1>>

RECURSIVE ConvEvents(_, _)
\* the operations the first n conversion statements of d attempt when each succeeds
ConvEvents(d, n) ==
  IF n = 0 THEN <<>> ELSE ConvEvents(d, n - 1) \o StmtEvents(Stmts(d)[n], "ok")

\* the entry-point frames on the runtime thread
EntryFrames == {k \in 1..Len(stack) : stack[k].role = "entry"}

IsPrefix(p, q) == Len(p) <= Len(q) /\ SubSeq(q, 1, Len(p)) = p

\* C2: a Constructor entry point, zero parameters included, invoked with the
\* factory-guard flag set returns a null handle with no call frame created,
\* no conversion, no constructor body and no host exception; invoked with
\* the flag unset, its conversions run and then the constructor body.
C2_ConstructorHonoursGuard ==
  \A k \in EntryFrames :
    LET f == stack[k]
        d == FnOf(f)
        ran == <<<<"CallbackInfo::new", 0>>>> \o ConvEvents(d, Len(Stmts(d)))
    IN d.kind = "Constructor" =>
         /\ f.called_from_factory =>
              /\ f.events = <<>> /\ f.thrown = <<>> /\ f.native = "none" /\ f.task = 0
              /\ f.pc = "returned" => f.handle = "null"
              /\ f.pc \in {"block", "returned"}
         /\ ~f.called_from_factory =>
              /\ f.pc = "returned" => f.out # "none"
              /\ \A j \in 1..Len(f.events) :
                   f.events[j][1] \in {"native", "execute_tokio_future"} =>
                     IsPrefix(ran, f.events) /\ j = Len(ran) + 1
              /\ f.pc = "returned" /\ f.out = "Ok" /\ f.handle # "sentinel" =>
                   /\ IsPrefix(ran, f.events)
                   /\ Len(f.events) > Len(ran)
                   /\ f.events[Len(ran) + 1][1] =
                        (IF d.is_async THEN "execute_tokio_future" ELSE "native")

\* a zero-parameter constructor entered with the flag set has returned null
C2_Witness ==
  /\ Len(stack) = 2
  /\ FnOf(Top).kind = "Constructor" /\ Len(FnOf(Top).args) = 0
  /\ Top.called_from_factory /\ flag
  /\ Top.pc = "returned" /\ Top.handle = "null" /\ Top.events = <<>>

\* the constructor-body discipline of factory-driven construction
C3_NoDoubleInit ==
  /\ \A k \in 1..Len(stack) :
       /\ stack[k].ctor_body = 0
       /\ Count(stack[k].events, "native") <= 1
       /\ k >= 2 => Count(stack[k].events, "native") = 0
  /\ ~Running /\ factory_finished => ~flag
  /\ Len(stack) = 1 /\ Top.fn = "ctor" /\ factory_finished
       /\ Top.pc = "returned" /\ Top.out = "Ok" /\ Top.handle # "sentinel" =>
       /\ ~Top.called_from_factory
       /\ Count(Top.events, "native") = 1

\* the flag changes only inside cb.factory
C3_FlagWrittenByFactoryOnly ==
  flag' # flag =>
    /\ Running
    /\ \/ Top.pc = "ret" /\ Asm(Top).op = "factory" /\ flag'
       \/ Top.pc = "factory_clear" /\ ~flag'

\* C3: in any sequence of factory and constructor invocations no instance is
\* initialised twice: the constructor body runs zero times inside a
\* factory-driven construction and exactly once in a direct constructor
\* invocation made after the factory finished; no entry point writes the flag.
C3_FactoryNeverDoubleInitialises ==
  []C3_NoDoubleInit /\ [][C3_FlagWrittenByFactoryOnly]_vars

\* a direct constructor call after a finished factory call ran the body once
C3_Witness ==
  /\ Len(stack) = 1 /\ Top.fn = "ctor" /\ factory_finished /\ ~flag
  /\ Top.pc = "returned" /\ Top.out = "Ok"
  /\ Count(Top.events, "native") = 1

\* the operations of a frame on one call-frame slot
OnSlot(events, name, i) ==
  Cardinality({j \in 1..Len(events) : events[j] = <<name, i>>})

\* C5: in strict mode, for an owned value parameter at slot i: a non-null
\* sentinel from validation is returned at once as a successful result, with
\* slot i not converted, no later slot validated or converted, the native
\* function not called and nothing thrown; a null validation is followed by
\* exactly one conversion of slot i, and marshalling goes on to the next
\* parameter.
C5_StrictValidation ==
  \A k \in EntryFrames :
    LET f == stack[k]
        d == FnOf(f)
        ev == f.events
    IN d.strict =>
         /\ \A j \in 1..Len(ev) :
              /\ ev[j][1] = "from_napi_value" => j > 1 /\ ev[j - 1] = <<"validate", ev[j][2]>>
              /\ ev[j][1] = "validate" =>
                   /\ OnSlot(ev, "validate", ev[j][2]) = 1
                   /\ j < Len(ev) =>
                        /\ ev[j + 1] = <<"from_napi_value", ev[j][2]>>
                        /\ OnSlot(ev, "from_napi_value", ev[j][2]) = 1
                   /\ j = Len(ev) =>
                        /\ f.pc \in {"unwrap", "returned"}
                        /\ \/ f.out = "Ok" /\ f.handle = "sentinel"
                           \/ f.out = "Err" /\ f.err = "conversion"
         /\ f.handle = "sentinel" =>
              /\ f.out = "Ok" /\ f.thrown = <<>> /\ f.native = "none" /\ f.task = 0
              /\ ev # <<>> /\ ev[Len(ev)][1] = "validate"
              /\ OnSlot(ev, "from_napi_value", ev[Len(ev)][2]) = 0
              /\ Count(ev, "native") = 0
              /\ \A j \in 1..Len(ev) : ev[j][2] <= ev[Len(ev)][2]
         /\ f.pc = "block" /\ function_call(d)[f.blk] = "arg_conversions" =>
              ev = <<<<"CallbackInfo::new", 0>>>> \o ConvEvents(d, f.idx - 1)

\* slot 0 validated and converted, slot 1 answered with the sentinel, which
\* the entry point returned
C5_Witness ==
  /\ Running /\ Top.role = "entry" /\ FnOf(Top).strict
  /\ Top.pc = "returned" /\ Top.handle = "sentinel" /\ Top.thrown = <<>>
  /\ Top.events = <<<<"CallbackInfo::new", 0>>, <<"validate", 0>>,
                    <<"from_napi_value", 0>>, <<"validate", 1>>>>

\* C6: for an async fallible function whose conversions succeeded: a task
\* that resolves with a value has that value converted by the resolver and
\* the deferred value fulfilled with it; a task that resolves with a failure
\* rejects the deferred value, the failure is not unwrapped or converted
\* inline, and the dispatching invocation throws nothing and returns a
\* non-failure result.
C6_AsyncFailureRejects ==
  desc.is_async /\ desc.is_ret_result =>
    /\ \A k \in EntryFrames :
         stack[k].fn = "desc" =>
           /\ Count(stack[k].events, "native") = 0
           /\ Count(stack[k].events, "to_napi_value") = 0
           /\ stack[k].native = "none"
           /\ stack[k].pc \in {"unwrap", "returned"} /\ stack[k].out = "Ok"
                /\ stack[k].handle # "sentinel" => stack[k].task # 0
           /\ stack[k].task # 0 =>
                stack[k].out = "Ok" /\ stack[k].handle = "promise" /\ stack[k].thrown = <<>>
    /\ \A t \in 1..Len(tasks) :
         tasks[t].st = "settled" =>
           /\ tasks[t].entry_thrown = 0 /\ tasks[t].entry_handle = "promise"
           /\ tasks[t].res = "Err" =>
                tasks[t].deferred = "rejected" /\ tasks[t].handler_events = <<>>
           /\ tasks[t].res = "Ok" =>
                /\ tasks[t].handler_events # <<>>
                /\ tasks[t].handler_err = "none" =>
                     tasks[t].deferred = "fulfilled" /\ tasks[t].value \notin {"none", "null"}
                /\ tasks[t].deferred = "rejected" => tasks[t].handler_err # "none"
                /\ desc.kind = "Plain" =>
                     /\ tasks[t].handler_events = <<<<"to_napi_value", 0>>>>
                     /\ tasks[t].deferred = "fulfilled" => tasks[t].value = "value"
                     /\ tasks[t].deferred = "rejected" => tasks[t].handler_err = "retconv"

\* a native failure in the task rejected the deferred value of an invocation
\* that had returned the promise without throwing
C6_Witness ==
  /\ desc.is_async /\ desc.is_ret_result /\ desc.kind = "Plain" /\ desc.ret = "T"
  /\ ~HasOwnerRefArg(desc)
  /\ \E t \in 1..Len(tasks) :
       /\ tasks[t].st = "settled" /\ tasks[t].res = "Err"
       /\ tasks[t].deferred = "rejected"
       /\ tasks[t].entry_thrown = 0 /\ tasks[t].entry_handle = "promise"

\* the completion handler's discipline
C7_HandlerSafety ==
  /\ \A t \in 1..Len(tasks) :
       /\ tasks[t].handler_runs <= 1
       /\ tasks[t].handler_runs = 1 <=> tasks[t].st \in {"resolving", "settled"}
       /\ tasks[t].handler_runs = 1 => tasks[t].res \in {"Ok", "Err"} /\ tasks[t].events # <<>>
       /\ tasks[t].st = "resolving" <=>
            stack # <<>> /\ stack[1].role = "handler" /\ stack[1].task = t
  /\ \A k \in 1..Len(stack) : stack[k].role = "handler" => k = 1

\* C7: for every dispatched task, under every interleaving, the completion
\* handler runs exactly once, on the runtime thread, and only after the
\* native task has finished.
C7_HandlerRunsOnceAfterTask ==
  /\ []C7_HandlerSafety
  /\ \A t \in 1..MaxTasks :
       [](Len(tasks) >= t => <>(Len(tasks) >= t /\ tasks[t].handler_runs = 1))

\* a finished task's handler is running on the runtime thread
C7_Witness ==
  /\ Len(stack) = 1 /\ Top.role = "handler"
  /\ tasks[Top.task].handler_runs = 1 /\ tasks[Top.task].res = "Ok"

\* operations that convert a host-runtime handle
Conversions ==
  {"unwrap_raw", "from_napi_value", "from_napi_ref", "from_napi_mut_ref", "validate",
   "closure", "Reference::from_value_ptr", "to_napi_value"}

TaskOrder(st) ==
  CASE st = "running" -> 1 [] st = "finished" -> 2 [] st = "resolving" -> 3 [] st = "settled" -> 4

C9_NoCancel ==
  /\ Len(tasks') >= Len(tasks)
  /\ \A t \in 1..Len(tasks) :
       /\ TaskOrder(tasks'[t].st) >= TaskOrder(tasks[t].st)
       /\ tasks[t].deferred # "pending" => tasks'[t].deferred = tasks[t].deferred
       /\ tasks[t].res # "none" => tasks'[t].res = tasks[t].res

C9_SettledMeansDelivered ==
  \A t \in 1..Len(tasks) :
    tasks[t].st = "settled" => tasks[t].res # "none" /\ tasks[t].deferred \in {"fulfilled", "rejected"}

\* C9: under fair scheduling every dispatched task finishes and its result
\* or failure is delivered to the deferred value; nothing cancels a task.
C9_TaskAlwaysDelivered ==
  /\ []C9_SettledMeansDelivered
  /\ [][C9_NoCancel]_vars
  /\ \A t \in 1..MaxTasks :
       [](Len(tasks) >= t =>
            <>(Len(tasks) >= t /\ tasks[t].st = "settled"
                 /\ tasks[t].deferred \in {"fulfilled", "rejected"}))

\* a task whose value fulfilled the deferred value
C9_Witness ==
  \E t \in 1..Len(tasks) :
    tasks[t].st = "settled" /\ tasks[t].res = "Ok" /\ tasks[t].deferred = "fulfilled"

\* C10: the entry point returns a value handle and never a failure: a
\* dispatch that ends in a failure result has a host exception built from
\* that failure thrown and a null handle returned.
C10_FailureBecomesException ==
  \A k \in EntryFrames :
    LET f == stack[k]
    IN f.pc = "returned" =>
         /\ f.handle \in {"null", "value", "this", "instance", "promise", "sentinel"}
         /\ f.out = "Err" =>
              /\ f.handle = "null"
              /\ f.err \in {"frame", "conversion", "host", "native", "retconv"}
              /\ f.thrown = <<f.err>>
         /\ f.out # "Err" => Len(f.thrown) <= 1 /\ (f.thrown # <<>> => f.handle = "null")

\* a propagated native failure was thrown and null returned
C10_Witness ==
  /\ Running /\ Top.role = "entry" /\ Top.pc = "returned"
  /\ Top.out = "Err" /\ Top.err = "native"
  /\ Top.thrown = <<"native">> /\ Top.handle = "null"

\* C11: when the conversion of a parameter (the receiver recovery or the value
\* at a call-frame slot) fails, marshalling stops at that parameter: no later
\* parameter is converted, the native function is not called, no task is
\* dispatched, and the failure is the failure result of the dispatch.
C11_ConversionFailureStopsMarshalling ==
  \A k \in EntryFrames :
    LET f == stack[k]
        d == FnOf(f)
        ev == f.events
    IN f.err = "conversion" /\ ev # <<>> /\ ev[Len(ev)][1] # "Reference::from_value_ptr" =>
         /\ f.out = "Err"
         /\ f.pc \in {"unwrap", "returned"}
         /\ f.idx \in 1..Len(Stmts(d))
         /\ \E o \in {"err", "validate_err"} \cap Outcomes(Stmts(d)[f.idx]) :
              ev = <<<<"CallbackInfo::new", 0>>>> \o ConvEvents(d, f.idx - 1)
                     \o StmtEvents(Stmts(d)[f.idx], o)
         /\ f.native = "none" /\ f.task = 0
         /\ Count(ev, "native") = 0 /\ Count(ev, "execute_tokio_future") = 0
         /\ f.pc = "returned" => f.handle = "null" /\ f.thrown = <<"conversion">>

\* the first of two conversions of an async function failed: the second was
\* not attempted and nothing was dispatched
C11_Witness ==
  /\ Running /\ Top.role = "entry" /\ Top.fn = "desc" /\ desc.is_async
  /\ Len(Stmts(desc)) = 2 /\ Top.idx = 1
  /\ Top.pc = "returned" /\ Top.out = "Err" /\ Top.err = "conversion"
  /\ Len(Top.events) = 2 /\ tasks = <<>>

\* the callback parameters with pure == false
NonPureCallbacks(d) ==
  {k \in 1..Len(d.args) : d.args[k].kind = "Callback" /\ ~d.args[k].pure_fn}

\* the statements of the block that were synthesized
Synthesized(body) == {j \in 1..Len(body) : body[j][1] \in {"trait", "impl"}}

\* C12: the synthesized invocation interfaces and the synthesized
\* implementations are each as many as the callback parameters with
\* pure == false, the interface names of one function are pairwise distinct,
\* and in the emitted body every synthesized interface and implementation
\* stands before the first original statement.
C12_TrampolinesSplicedFirst ==
  LET n == Cardinality(NonPureCallbacks(desc))
  IN gen_pc \notin {"gen_fn_receiver", "panicked"} =>
       /\ Len(planner.trait_def) = n
       /\ Len(planner.trait_impl_def) = n
       /\ \A i, j \in 1..n :
            /\ planner.trait_def[i][1] = "trait"
            /\ planner.trait_impl_def[i][1] = "impl"
            /\ i # j => planner.trait_def[i][2] # planner.trait_def[j][2]
       /\ gen_pc \in {"quote", "emitted"} =>
            /\ Synthesized(unit.body) = 1..(2 * n)
            /\ \A i \in 1..n :
                 /\ Cardinality({j \in 1..Len(unit.body) : unit.body[j] = planner.trait_def[i]}) = 1
                 /\ Cardinality({j \in 1..Len(unit.body) : unit.body[j] = planner.trait_impl_def[i]}) = 1
            /\ SubSeq(unit.body, 2 * n + 1, Len(unit.body)) \in OriginalBodies

\* two stateful callbacks among the parameters of a function whose block has
\* statements of its own
C12_Witness ==
  /\ gen_pc = "emitted"
  /\ Cardinality(NonPureCallbacks(desc)) = 2
  /\ Len(unit.body) = 6
  /\ unit.body[5][1] = "stmt"

\* an owned value parameter: a typed parameter that is neither a borrow nor
\* the environment handle
OwnedValue(arg) == arg.kind = "PatType" /\ arg.ty \in {"T", "Reference<C>", "Reference<D>"}

\* the first n parameters each gave one statement and one call argument, the
\* j-th ones binding and naming `arg{j-1}` read from slot j-1
AlignedUpTo(d, st, n) ==
  /\ Len(st.arg_conversions) = n
  /\ Len(st.args) = n
  /\ \A j \in 1..n :
       /\ st.arg_conversions[j].op = "ty"
       /\ st.arg_conversions[j].conv = "from_napi_value"
       /\ st.arg_conversions[j].index = j - 1
       /\ st.arg_conversions[j].ident = IdentExpr(j - 1)
       /\ st.args[j] = IdentExpr(j - 1)

\* C13: for a descriptor with no receiver whose parameters are all owned
\* value parameters, the conversion statements and the call arguments are
\* each as many as the parameters, and the j-th of each belongs to the j-th
\* parameter.
C13_OwnedListsAligned ==
  (desc.fn_self = "None" /\ \A k \in 1..Len(desc.args) : OwnedValue(desc.args[k])) =>
    (gen_pc = "planned" => AlignedUpTo(desc, planner, Len(desc.args)))

\* the same where no parameter is a reference to the descriptor's owner
C13_AlignedWithoutOwnerReference ==
  (/\ desc.fn_self = "None"
   /\ \A k \in 1..Len(desc.args) :
        OwnedValue(desc.args[k]) /\ ~IsOwnerReference(desc, desc.args[k])) =>
    (gen_pc # "fetch_this" => AlignedUpTo(desc, planner, arg_i))

\* zero parameters, no receiver, neither Constructor nor Factory
PlainNullary(d) ==
  Len(d.args) = 0 /\ d.fn_self = "None" /\ d.kind \notin {"Constructor", "Factory"}

\* C14: the entry point calls the native function directly, with no call
\* frame created and no conversion statement run, exactly when the descriptor
\* has zero parameters, no receiver and a kind that is neither Constructor
\* nor Factory; every other descriptor, one whose only parameter is the
\* environment handle included, creates the call frame and runs the
\* conversion statements before the native call.
C14_DirectCallIffPlainNullary ==
  /\ unit.function_call = <<"native_call">> <=> PlainNullary(desc)
  /\ \A k \in EntryFrames :
       LET f == stack[k]
           d == FnOf(f)
           ev == f.events
           ran == <<<<"CallbackInfo::new", 0>>>> \o ConvEvents(d, Len(Stmts(d)))
       IN /\ PlainNullary(d) =>
               /\ Count(ev, "CallbackInfo::new") = 0
               /\ Stmts(d) = <<>>
               /\ f.pc = "block" => function_call(d)[f.blk] = "native_call"
          /\ \A j \in 1..Len(ev) :
               ev[j][1] \in {"native", "execute_tokio_future"} =>
                 IF PlainNullary(d) THEN j = 1
                 ELSE /\ IsPrefix(ran, ev)
                      /\ j > Len(ran)
                      /\ \A i \in (Len(ran) + 1)..(j - 1) : ev[i][1] = "Reference::from_value_ptr"

\* a function whose only parameter is the environment handle created its
\* call frame before the call
C14_Witness ==
  /\ Running /\ Top.fn = "desc" /\ Top.role = "entry"
  /\ desc.args = <<PatTypeArg("Env")>> /\ desc.fn_self = "None" /\ desc.kind = "Plain"
  /\ Top.events = <<<<"CallbackInfo::new", 0>>, <<"native", 0>>>>

\* the positions of the stream holding an item of the given kind
ItemsOf(stream, item) == {j \in 1..Len(stream) : stream[j].item = item}

\* C15: an entry point is emitted for every descriptor; the registration
\* thunk and the load-time initializer recording (module path, exported name,
\* thunk) in the export table are emitted exactly when the descriptor has no
\* owner, and for a descriptor with an owner nothing is registered.
C15_RegistrationIffNoOwner ==
  desc.fn_self # "Value" =>
    /\ gen_pc # "panicked"
    /\ gen_pc # "emitted" => ENABLED GenNext
    /\ gen_pc = "emitted" =>
         /\ Cardinality(ItemsOf(unit.stream, "extern \"C\" fn")) = 1
         /\ IF desc.parent = "None"
              THEN /\ \E j \in ItemsOf(unit.stream, "unsafe fn") :
                        /\ unit.stream[j].name = "cb_name"
                        /\ unit.stream[j].calls[1] =
                             <<"napi_create_function", "js_name", "name_len", "intermediate_ident">>
                   /\ \E j \in ItemsOf(unit.stream, "#[ctor] fn") :
                        unit.stream[j].calls =
                          <<<<"register_module_export", "js_mod", "js_name", "cb_name">>>>
                   /\ Cardinality(ItemsOf(unit.stream, "unsafe fn")) = 1
                   /\ Cardinality(ItemsOf(unit.stream, "#[ctor] fn")) = 1
            ELSE /\ Len(unit.stream) = 2
                 /\ \A j \in 1..Len(unit.stream) : unit.stream[j].calls \in
                      {<<>>, <<<<"function_call.unwrap_or_else">>>>}

\* a method of a class was emitted with its entry point and no registration
C15_Witness ==
  /\ gen_pc = "emitted"
  /\ desc.parent = "C" /\ desc.fn_self = "Ref"
  /\ Len(unit.stream) = 2
  /\ unit.stream[2].item = "extern \"C\" fn"

\* C16: the callable expression depends on the receiver and the owner only:
\* a borrowed or mutably borrowed receiver gives the recovered receiver's
\* method, no receiver with an owner the owner-namespaced function, no
\* receiver and no owner the bare function; a by-value receiver makes the
\* generation abort with no code emitted.
C16_ReceiverExpression ==
  gen_pc # "gen_fn_receiver" =>
    /\ desc.fn_self \in {"Ref", "MutRef"} => unit.receiver = "this.name"
    /\ desc.fn_self = "None" /\ desc.parent # "None" => unit.receiver = "class::name"
    /\ desc.fn_self = "None" /\ desc.parent = "None" => unit.receiver = "name"
    /\ desc.fn_self # "Value" => gen_pc # "panicked"
    /\ desc.fn_self = "Value" =>
         /\ gen_pc = "panicked"
         /\ ~ENABLED GenNext
         /\ unit.stream = <<>>
         /\ unit.ret = "" /\ unit.native_call = "" /\ unit.function_call = <<>>
         /\ unit.register = <<>> /\ unit.body \in OriginalBodies

\* the generation of a function taking `self` by value has aborted
C16_Witness ==
  /\ desc.fn_self = "Value"
  /\ gen_pc = "panicked"
  /\ unit.stream = <<>>

\* the statements recovering the receiver
ThisStmts(stmts) == {j \in 1..Len(stmts) : stmts[j].op = "this"}

\* C17: with a borrowed or mutably borrowed receiver the first conversion
\* statement executed is the recovery of the receiver from the call frame's
\* instance handle, before the conversion of any parameter; the recovered
\* reference is shared for a borrowed and exclusive for a mutably borrowed
\* receiver; with no receiver no recovery statement is emitted.
C17_ReceiverRecoveredFirst ==
  \A k \in EntryFrames :
    LET f == stack[k]
        d == FnOf(f)
        ev == f.events
    IN /\ d.fn_self \in {"Ref", "MutRef"} =>
            /\ ThisStmts(Stmts(d)) = {1}
            /\ Stmts(d)[1] = ThisStmt(IF d.fn_self = "Ref" THEN "& parent" ELSE "&mut parent")
            /\ Count(ev, "unwrap_raw") <= 1
            /\ \A j \in 1..Len(ev) :
                 ev[j][1] \in Conversions =>
                   /\ j >= 2
                   /\ ev[1] = <<"CallbackInfo::new", 0>>
                   /\ ev[2] = <<"unwrap_raw", 0>>
       /\ d.fn_self = "None" =>
            /\ ThisStmts(Stmts(d)) = {}
            /\ Count(ev, "unwrap_raw") = 0

\* a `&mut self` method recovered its receiver and then converted slot 0
C17_Witness ==
  /\ Running /\ Top.role = "entry" /\ Top.fn = "desc"
  /\ desc.fn_self = "MutRef"
  /\ Len(Top.events) >= 3
  /\ SubSeq(Top.events, 1, 3) =
       <<<<"CallbackInfo::new", 0>>, <<"unwrap_raw", 0>>, <<"from_napi_value", 0>>>>

\* the reference mode of a value parameter's type
ReferenceMode(ty) ==
  CASE ty = "& mut T" -> "MutablyBorrowed"
    [] ty = "& T" -> "Borrowed"
    [] OTHER -> "Owned"

\* the conversion the reference mode selects
ModeConversion(mode) ==
  CASE mode = "MutablyBorrowed" -> "from_napi_mut_ref"
    [] mode = "Borrowed" -> "from_napi_ref"
    [] OTHER -> "from_napi_value"

\* d with the strict flag flipped
FlipStrict(d) == [d EXCEPT !.strict = ~d.strict]

\* C18: the conversion emitted for a value parameter is selected by its
\* reference mode alone (mutable-reference, immutable-reference or
\* value-producing conversion); the strict flag adds a validation step to
\* owned parameters only, and the statement of a borrowed or mutably borrowed
\* parameter is the same whether or not the flag is set.
C18_ConversionByReferenceMode ==
  LET ks == SlotConsumers(desc, arg_i)
      ss == SlotStmts(planner.arg_conversions)
      other == SlotStmts(PlanUpTo(FlipStrict(desc), arg_i).arg_conversions)
  IN /\ Len(ss) = Len(ks)
     /\ Len(other) = Len(ks)
     /\ \A j \in 1..Len(ks) :
          LET arg == desc.args[ks[j]]
          IN arg.kind = "PatType" =>
               LET mode == ReferenceMode(arg.ty)
               IN /\ ss[j].op = "ty"
                  /\ ss[j].conv = ModeConversion(mode)
                  /\ ss[j].validate = (desc.strict /\ mode = "Owned")
                  /\ other[j].conv = ss[j].conv
                  /\ mode # "Owned" => other[j] = ss[j]
                  /\ mode = "Owned" => other[j].validate = ~ss[j].validate

\* a strict descriptor with one parameter of each reference mode, planned
C18_Witness ==
  /\ gen_pc = "planned"
  /\ desc.strict
  /\ desc.args = <<PatTypeArg("& mut T"), PatTypeArg("& T"), PatTypeArg("T")>>
  /\ [j \in 1..3 |-> <<SlotStmts(planner.arg_conversions)[j].conv,
                       SlotStmts(planner.arg_conversions)[j].validate>>] =
       <<<<"from_napi_mut_ref", FALSE>>, <<"from_napi_ref", FALSE>>,
         <<"from_napi_value", TRUE>>>>

\* what one invocation of a trampoline of signature sig attempts when
\* nothing fails
CbExpected(sig) ==
  [i \in 1..Len(sig.args) |-> <<"to_napi_value", i - 1>>]
    \o <<<<"napi_call_function", 0>>>>
    \o (IF sig.ret # "None" THEN <<<<"from_napi_value", 0>>>> ELSE <<>>)

\* C19: an invocation of a callback trampoline converts its native arguments
\* in input order, then invokes the host function held in the callback's own
\* call-frame slot with the call frame's receiver as this, then converts the
\* returned value to the return type (or yields unit success when there is
\* none); a failed argument conversion means the host function is not
\* invoked, a failed host invocation means the return conversion is not
\* attempted, and the trampoline returns that failure.
C19_TrampolineOrderAndShortCircuit ==
  cb_call.calls > 0 =>
    LET c == cb_call
        ev == c.events
        n == Len(c.sig.args)
        slot == Cardinality({j \in 1..(c.param - 1) : SlotConsuming(desc, j)})
    IN /\ IsPrefix(ev, CbExpected(c.sig))
       /\ Count(ev, "napi_call_function") = 1 =>
            /\ c.called[1] = c.this
            /\ c.called[2] = <<"js_arg", slot>>
            /\ c.called[3] = [i \in 1..n |-> <<c.sig.args[i], c.native[i]>>]
       /\ Count(ev, "napi_call_function") = 0 => c.called = NoCall.called
       /\ c.pc \in {"args", "ret"} => c.result = <<"none", "", 0>>
       /\ c.pc = "returned" =>
            \/ /\ c.result = (IF c.sig.ret = "None" THEN <<"Ok", "()", 0>>
                              ELSE <<"Ok", "ret", c.ret_ptr>>)
               /\ ev = CbExpected(c.sig)
            \/ /\ c.result[1] = "Err"
               /\ c.result[2] = "to_napi_value"
               /\ ev # <<>>
               /\ ev[Len(ev)] = <<"to_napi_value", c.result[3]>>
               /\ Count(ev, "napi_call_function") = 0
            \/ /\ c.result = <<"Err", "Failed to call napi callback", 0>>
               /\ ev # <<>>
               /\ ev[Len(ev)] = <<"napi_call_function", 0>>
               /\ Count(ev, "from_napi_value") = 0
            \/ /\ c.result = <<"Err", "from_napi_value", 0>>
               /\ c.sig.ret # "None"
               /\ ev = CbExpected(c.sig)

\* the callback of slot 1 was called a second time with (A, B) arguments:
\* both converted in order, the host function of slot 1 was invoked and
\* failed, and the failure was returned without a return conversion
C19_Witness ==
  /\ cb_call.pc = "returned"
  /\ cb_call.calls = 2
  /\ cb_call.sig = [args |-> <<"A", "B">>, ret |-> "R"]
  /\ cb_call.called = <<cb_call.this, <<"js_arg", 1>>, <<<<"A", 2>>, <<"B", 1>>>>>>
  /\ cb_call.events = <<<<"to_napi_value", 0>>, <<"to_napi_value", 1>>,
                        <<"napi_call_function", 0>>>>
  /\ cb_call.result = <<"Err", "Failed to call napi callback", 0>>

RECURSIVE DashComponents(_)
\* the dash-separated components of a string
DashComponents(s) ==
  IF \A i \in 1..Len(s) : s[i] # "-" THEN <<s>>
  ELSE LET i == CHOOSE i \in 1..Len(s) :
                  s[i] = "-" /\ \A j \in 1..(i - 1) : s[j] # "-"
       IN <<SubSeq(s, 1, i - 1)>> \o DashComponents(SubSeq(s, i + 1, Len(s)))

\* a trailing `androideabi` split into `android` and `eabi`
AndroidEabiSplit(t) ==
  IF ends_with(t, <<"a", "n", "d", "r", "o", "i", "d", "e", "a", "b", "i">>)
    THEN SubSeq(t, 1, Len(t) - Len(<<"e", "a", "b", "i">>)) \o <<"-">> \o <<"e", "a", "b", "i">>
  ELSE t

\* C20: for every triple of AVAILABLE_TARGETS (and so of DEFAULT_TARGETS)
\* Target::new does not panic and yields a known platform, a known
\* architecture, abi = the fourth dash-separated component when there is one
\* and none otherwise (a trailing androideabi split first), and
\* platform_arch_abi = platform-arch-abi with an abi, platform-arch without.
C20_AvailableTargetsParse ==
  /\ DEFAULT_TARGETS \subseteq AVAILABLE_TARGETS
  /\ target.triple \in AVAILABLE_TARGETS \cup DEFAULT_TARGETS /\ target.pc # "none" =>
       /\ target.pc # "panicked"
       /\ target.pc = "built" =>
            LET comps == DashComponents(AndroidEabiSplit(target.triple))
                platform == NodePlatform_fmt(target.platform)
                arch == NodeArch_fmt(target.arch[1])
            IN /\ target.platform[1] \in
                    {"Darwin", "Freebsd", "Windows", "Linux", "Android", "Fuchsia"}
               /\ target.arch # <<>>
               /\ target.arch[1] \in {"x32", "x64", "ia32", "arm", "arm64", "mips",
                                      "mipsel", "ppc", "ppc64", "s390", "s390x"}
               /\ Len(comps) >= 4 =>
                    /\ target.abi = <<comps[4]>>
                    /\ target.platform_arch_abi =
                         platform \o <<"-">> \o arch \o <<"-">> \o comps[4]
               /\ Len(comps) < 4 =>
                    /\ target.abi = <<>>
                    /\ target.platform_arch_abi = platform \o <<"-">> \o arch

\* armv7-linux-androideabi was built as android-arm-eabi
C20_Witness ==
  /\ target.pc = "built"
  /\ target.triple = <<"a", "r", "m", "v", "7", "-", "l", "i", "n", "u", "x", "-", "a", "n", "d", "r", "o", "i", "d", "e", "a", "b", "i">>
  /\ target.platform = <<"Android", <<>>>>
  /\ target.arch = <<"arm">>
  /\ target.abi = <<<<"e", "a", "b", "i">>>>
  /\ target.platform_arch_abi = <<"a", "n", "d", "r", "o", "i", "d", "-", "a", "r", "m", "-", "e", "a", "b", "i">>

\* C21: for a synchronous fallible plain function or method that does not
\* return self, a failure returned by the native function makes the entry
\* point throw exactly one host exception and return a null handle: the
\* return assembly throws and yields a success holding null, so the failure
\* handler of the entry point does not throw again. No entry-point
\* invocation throws more than one host exception.
C21_NativeFailureThrowsOnce ==
  \A k \in EntryFrames :
    LET f == stack[k]
        d == FnOf(f)
    IN /\ Len(f.thrown) <= 1
       /\ /\ ~d.is_async /\ d.is_ret_result /\ d.kind = "Plain"
          /\ d.ret # "None" /\ ~is_return_self(d.ret)
          /\ f.native = "Err"
          /\ f.pc \in {"unwrap", "returned"}
          => /\ f.thrown = <<"native">>
             /\ f.out = "Ok"
             /\ f.handle = "null"
             /\ Count(f.events, "to_napi_value") = 0

\* a synchronous fallible method whose native function failed has returned
\* null to the host with the one exception its return assembly threw
C21_Witness ==
  /\ Running /\ Top.role = "entry" /\ Top.fn = "desc" /\ Top.pc = "returned"
  /\ ~desc.is_async /\ desc.is_ret_result /\ desc.kind = "Plain"
  /\ desc.fn_self = "Ref" /\ desc.ret = "T"
  /\ Top.native = "Err"
  /\ Top.out = "Ok" /\ Top.handle = "null" /\ Top.thrown = <<"native">>

\* the callback parameters with pure == false, in parameter order
NonPureInOrder(d) ==
  SelectSeq([k \in 1..Len(d.args) |-> k],
            LAMBDA k : d.args[k].kind = "Callback" /\ ~d.args[k].pure_fn)

\* C22: the n-th callback parameter with pure == false (from 0, pure
\* callbacks not counted) gets the interface name with counter value n, and
\* in the emitted body each interface declaration is immediately followed by
\* its own implementation, so no implementation precedes its interface.
C22_InterfaceNamedByCounterThenImplemented ==
  gen_pc \notin {"gen_fn_receiver", "panicked"} =>
    LET ks == NonPureInOrder(desc)
        body == unit.body
    IN /\ Len(planner.trait_def) = Len(ks)
       /\ \A n \in 0..(Len(ks) - 1) :
            /\ planner.trait_def[n + 1] = <<"trait", <<"FunctionCall", n>>>>
            /\ planner.trait_impl_def[n + 1] = <<"impl", <<"FunctionCall", n>>>>
            /\ n = Cardinality({k \in 1..(ks[n + 1] - 1) : k \in NonPureCallbacks(desc)})
       /\ \A j \in 1..Len(body) :
            /\ body[j][1] = "trait" =>
                 j < Len(body) /\ body[j + 1] = <<"impl", body[j][2]>>
            /\ body[j][1] = "impl" =>
                 /\ j > 1 /\ body[j - 1] = <<"trait", body[j][2]>>
                 /\ \A i \in 1..Len(body) : body[i] = <<"trait", body[j][2]>> => i < j
       /\ gen_pc \in {"quote", "emitted"} =>
            \A n \in 0..(Len(ks) - 1) :
              \E j \in 1..Len(body) : body[j] = <<"trait", <<"FunctionCall", n>>>>

\* two stateful callbacks: the emitted body holds both pairs, each interface
\* directly before its implementation
C22_Witness ==
  /\ gen_pc = "emitted"
  /\ desc.args = <<CallbackArg(FALSE), CallbackArg(FALSE)>>
  /\ Len(unit.body) >= 4
  /\ SubSeq(unit.body, 1, 4) =
       <<<<"trait", <<"FunctionCall", 1>>>>, <<"impl", <<"FunctionCall", 1>>>>,
         <<"trait", <<"FunctionCall", 0>>>>, <<"impl", <<"FunctionCall", 0>>>>>>

\* the function is a method: its native call goes through the recovered receiver
IsMethod(d) == gen_fn_receiver(d) = "this.name"

\* the entry-point invocation that dispatched task t is still running
Dispatching(t) == \E k \in EntryFrames : stack[k].task = t

\* C23: the reference recovered from the instance handle is used only while
\* the entry-point invocation that recovered it is still running: for every
\* method, sync or async, no call through the receiver happens after that
\* invocation has returned.
C23_ReceiverUsedWithinInvocation ==
  [][IsMethod(desc) =>
       \A t \in 1..Len(tasks) :
         Count(tasks'[t].events, "native") > Count(tasks[t].events, "native")
           => Dispatching(t)]_vars

\* a synchronous method calls through its receiver inside its own invocation
C23_SyncReceiverUsedWithinInvocation ==
  IsMethod(desc) /\ ~desc.is_async =>
    /\ tasks = <<>>
    /\ \A k \in EntryFrames :
         \A j \in 1..Len(stack[k].events) :
           stack[k].events[j][1] = "native" =>
             \E i \in 1..(j - 1) : stack[k].events[i] = <<"unwrap_raw", 0>>

\* the call arguments that reuse the recovered instance handle
OwnerRefArgs(st) == {k \in 1..Len(st.args) : st.args[k] = OwnerRefExpr}

\* C24: whenever the planner emits an owner-reference call argument, the
\* receiver-recovery statement that binds the instance handle was emitted
\* earlier in the same function, for every descriptor with an owner, those
\* with no receiver included.
C24_OwnerReferenceAfterRecovery ==
  desc.parent # "None" /\ OwnerRefArgs(planner) # {} =>
    /\ ThisStmts(planner.arg_conversions) # {}
    /\ planner.arg_conversions[1].op = "this"

\* the same for methods: the recovery is the first statement, emitted before
\* the walk over the parameters pushes any call argument
C24_MethodOwnerReferenceAfterRecovery ==
  desc.fn_self \in {"Ref", "MutRef"} /\ OwnerRefArgs(planner) # {} =>
    /\ ThisStmts(planner.arg_conversions) = {1}
    /\ gen_pc # "fetch_this"

\* the operations of a return assembly that read the call frame `cb`
FrameReads == {"cb.this", "cb.construct", "cb.factory"}

\* what the completion handlers of desc have executed so far
HandlerEvents ==
  {stack[k].events : k \in {j \in 1..Len(stack) : stack[j].role = "handler"}}
    \cup {tasks[t].handler_events : t \in 1..Len(tasks)}

\* C25: for an async function of any kind and return shape, the return
\* assembly executed in the completion handler reads only the environment
\* handle and the value the task produced; it never reads the call frame of
\* the entry-point invocation that dispatched the task, which has returned.
C25_HandlerReadsNoCallFrame ==
  desc.is_async =>
    \A ev \in HandlerEvents : \A j \in 1..Len(ev) : ev[j][1] \notin FrameReads

\* the same for the async functions whose assembly is a conversion: plain
\* functions and methods that are fallible or do not return self
C25_ConvertingHandlerReadsNoCallFrame ==
  /\ desc.is_async
  /\ desc.kind = "Plain"
  /\ desc.is_ret_result \/ ~is_return_self(desc.ret)
  => \A ev \in HandlerEvents : \A j \in 1..Len(ev) : ev[j] = <<"to_napi_value", 0>>

\* C26: for every free function the name length passed when creating the
\* host-runtime function value equals the byte length of the exported name
\* itself, not counting the null terminator appended for the registration
\* record.
C26_NameLengthExcludesTerminator ==
  desc.parent = "None" /\ reg.pc = "quoted" =>
    reg.create_function.length = Len(reg.exported_name)

\* what is passed: the terminated name and its length, terminator counted
C26_NameLengthCountsTerminator ==
  desc.parent = "None" /\ reg.pc = "quoted" =>
    /\ reg.create_function.utf8name = reg.exported_name \o <<"NUL">>
    /\ reg.export = reg.exported_name \o <<"NUL">>
    /\ reg.create_function.length = Len(reg.exported_name) + 1
    /\ reg.create_function.utf8name[reg.create_function.length] = "NUL"

====
